---- MODULE Spec2Model ----
(***************************************************************************)
(* A model of the qpOASES plugin of the QP-solver capability               *)
(* (casadi/interfaces/qpoases/qpoases_interface.cpp): the per-memory       *)
(* hot-start state machine (QpoasesMemory::called_once and the owned       *)
(* qpOASES object), the solve entry point eval, the reset init_memory and  *)
(* the status-to-message mapper getErrorMessage.                           *)
(*                                                                         *)
(* Every action is one whole call of the function it is named after.  The  *)
(* calls are synchronous and single-threaded, so the interleavings of the  *)
(* model are the orders in which a caller may issue them.                  *)
(*                                                                         *)
(* The qpOASES library itself is outside the source tree.  Its objects     *)
(* are modelled by what the interface can observe of them: their class,    *)
(* their QP status and the return value of init/reset/hotstart, which      *)
(* depends on that status and on the numerical data of the call (drawn     *)
(* from Problems).                                                         *)
(***************************************************************************)
EXTENDS Integers, Sequences, FiniteSets, TLC

(***************************************************************************)
(* Bounds of the model.                                                    *)
(***************************************************************************)
\* getErrorMessage is applied to every flag from -MaxUnknown up to
\* MaxUnknown past the last case label of its switch.
MaxUnknown == 3

\* The largest number of variables and of constraints of a QP whose
\* interface is set up.
MaxDim == 2

\* The largest number of instances created by name, of factorizations and
\* of solves of a linear solver that are followed.
MaxMade == 2
MaxFact == 2
MaxSolve == 2

(***************************************************************************)
(* The case labels of the switch of getErrorMessage, in the order of the   *)
(* source, each with the text it returns.  The numeric values of the       *)
(* enumerators are fixed by a qpOASES header outside the source tree; the  *)
(* model numbers them 0, 1, 2, ... in this order (SUCCESSFUL_RETURN is 0). *)
(***************************************************************************)
ReturnValues == <<
  [code |-> "SUCCESSFUL_RETURN", text |-> "Successful return."],
  [code |-> "RET_DIV_BY_ZERO", text |-> "Division by zero."],
  [code |-> "RET_INDEX_OUT_OF_BOUNDS", text |-> "Index out of bounds."],
  [code |-> "RET_INVALID_ARGUMENTS", text |-> "At least one of the arguments is invalid."],
  [code |-> "RET_ERROR_UNDEFINED", text |-> "Error number undefined."],
  [code |-> "RET_WARNING_UNDEFINED", text |-> "Warning number undefined."],
  [code |-> "RET_INFO_UNDEFINED", text |-> "Info number undefined."],
  [code |-> "RET_EWI_UNDEFINED", text |-> "Error/warning/info number undefined."],
  [code |-> "RET_AVAILABLE_WITH_LINUX_ONLY", text |-> "This function is available under Linux only."],
  [code |-> "RET_UNKNOWN_BUG", text |-> "The error occured is not yet known."],
  [code |-> "RET_PRINTLEVEL_CHANGED", text |-> "Print level changed."],
  [code |-> "RET_NOT_YET_IMPLEMENTED", text |-> "Requested function is not yet implemented in this version of qpOASES."],
  [code |-> "RET_INDEXLIST_MUST_BE_REORDERD", text |-> "Index list has to be reordered."],
  [code |-> "RET_INDEXLIST_EXCEEDS_MAX_LENGTH", text |-> "Index list exceeds its maximal physical length."],
  [code |-> "RET_INDEXLIST_CORRUPTED", text |-> "Index list corrupted."],
  [code |-> "RET_INDEXLIST_OUTOFBOUNDS", text |-> "Physical index is out of bounds."],
  [code |-> "RET_INDEXLIST_ADD_FAILED", text |-> "Adding indices from another index set failed."],
  [code |-> "RET_INDEXLIST_INTERSECT_FAILED", text |-> "Intersection with another index set failed."],
  [code |-> "RET_INDEX_ALREADY_OF_DESIRED_STATUS", text |-> "Index is already of desired status."],
  [code |-> "RET_ADDINDEX_FAILED", text |-> "Adding index to index set failed."],
  [code |-> "RET_REMOVEINDEX_FAILED", text |-> "Removing index from index set failed."],
  [code |-> "RET_SWAPINDEX_FAILED", text |-> "Cannot swap between different indexsets."],
  [code |-> "RET_NOTHING_TO_DO", text |-> "Nothing to do."],
  [code |-> "RET_SETUP_BOUND_FAILED", text |-> "Setting up bound index failed."],
  [code |-> "RET_SETUP_CONSTRAINT_FAILED", text |-> "Setting up constraint index failed."],
  [code |-> "RET_MOVING_BOUND_FAILED", text |-> "Moving bound between index sets failed."],
  [code |-> "RET_MOVING_CONSTRAINT_FAILED", text |-> "Moving constraint between index sets failed."],
  [code |-> "RET_SHIFTING_FAILED", text |-> "Shifting of bounds/constraints failed."],
  [code |-> "RET_ROTATING_FAILED", text |-> "Rotating of bounds/constraints failed."],
  [code |-> "RET_QPOBJECT_NOT_SETUP", text |-> "The QP object has not been setup correctly, use another constructor."],
  [code |-> "RET_QP_ALREADY_INITIALISED", text |-> "QProblem has already been initialized."],
  [code |-> "RET_NO_INIT_WITH_STANDARD_SOLVER", text |-> "Initialisation via extern QP solver is not yet implemented."],
  [code |-> "RET_RESET_FAILED", text |-> "Reset failed."],
  [code |-> "RET_INIT_FAILED", text |-> "Initialisation failed."],
  [code |-> "RET_INIT_FAILED_TQ", text |-> "Initialisation failed due to TQ factorisation."],
  [code |-> "RET_INIT_FAILED_CHOLESKY", text |-> "Initialisation failed due to Cholesky decomposition."],
  [code |-> "RET_INIT_FAILED_HOTSTART", text |-> "Initialisation failed! QP could not be solved!"],
  [code |-> "RET_INIT_FAILED_INFEASIBILITY", text |-> "Initial QP could not be solved due to infeasibility!"],
  [code |-> "RET_INIT_FAILED_UNBOUNDEDNESS", text |-> "Initial QP could not be solved due to unboundedness!"],
  [code |-> "RET_INIT_SUCCESSFUL", text |-> "Initialisation done."],
  [code |-> "RET_OBTAINING_WORKINGSET_FAILED", text |-> "Failed to obtain working set for auxiliary QP."],
  [code |-> "RET_SETUP_WORKINGSET_FAILED", text |-> "Failed to setup working set for auxiliary QP."],
  [code |-> "RET_SETUP_AUXILIARYQP_FAILED", text |-> "Failed to setup auxiliary QP for initialized homotopy."],
  [code |-> "RET_NO_EXTERN_SOLVER", text |-> "No extern QP solver available."],
  [code |-> "RET_QP_UNBOUNDED", text |-> "QP is unbounded."],
  [code |-> "RET_QP_INFEASIBLE", text |-> "QP is infeasible."],
  [code |-> "RET_QP_NOT_SOLVED", text |-> "Problems occured while solving QP with standard solver."],
  [code |-> "RET_QP_SOLVED", text |-> "QP successfully solved."],
  [code |-> "RET_UNABLE_TO_SOLVE_QP", text |-> "Problems occured while solving QP."],
  [code |-> "RET_INITIALISATION_STARTED", text |-> "Starting problem initialisation."],
  [code |-> "RET_HOTSTART_FAILED", text |-> "Unable to perform homotopy due to internal error."],
  [code |-> "RET_HOTSTART_FAILED_TO_INIT", text |-> "Unable to initialise problem."],
  [code |-> "RET_HOTSTART_FAILED_AS_QP_NOT_INITIALISED", text |-> "Unable to perform homotopy as previous QP is not solved."],
  [code |-> "RET_ITERATION_STARTED", text |-> "Iteration..."],
  [code |-> "RET_SHIFT_DETERMINATION_FAILED", text |-> "Determination of shift of the QP data failed."],
  [code |-> "RET_STEPDIRECTION_DETERMINATION_FAILED", text |-> "Determination of step direction failed."],
  [code |-> "RET_STEPLENGTH_DETERMINATION_FAILED", text |-> "Determination of step direction failed."],
  [code |-> "RET_OPTIMAL_SOLUTION_FOUND", text |-> "Optimal solution of neighbouring QP found."],
  [code |-> "RET_HOMOTOPY_STEP_FAILED", text |-> "Unable to perform homotopy step."],
  [code |-> "RET_HOTSTART_STOPPED_INFEASIBILITY", text |-> "Premature homotopy termination because QP is infeasible."],
  [code |-> "RET_HOTSTART_STOPPED_UNBOUNDEDNESS", text |-> "Premature homotopy termination because QP is unbounded."],
  [code |-> "RET_WORKINGSET_UPDATE_FAILED", text |-> "Unable to update working sets according to initial guesses."],
  [code |-> "RET_MAX_NWSR_REACHED", text |-> "Maximum number of working set recalculations performed."],
  [code |-> "RET_CONSTRAINTS_NOT_SPECIFIED", text |-> "Problem does comprise constraints! You also have to specify new constraints' bounds."],
  [code |-> "RET_INVALID_FACTORISATION_FLAG", text |-> "Invalid factorisation flag."],
  [code |-> "RET_UNABLE_TO_SAVE_QPDATA", text |-> "Unable to save QP data."],
  [code |-> "RET_STEPDIRECTION_FAILED_TQ", text |-> "Abnormal termination due to TQ factorisation."],
  [code |-> "RET_STEPDIRECTION_FAILED_CHOLESKY", text |-> "Abnormal termination due to Cholesky factorisation."],
  [code |-> "RET_CYCLING_DETECTED", text |-> "Cycling detected."],
  [code |-> "RET_CYCLING_NOT_RESOLVED", text |-> "Cycling cannot be resolved, QP probably infeasible."],
  [code |-> "RET_CYCLING_RESOLVED", text |-> "Cycling probably resolved."],
  [code |-> "RET_STEPSIZE", text |-> "For displaying performed stepsize."],
  [code |-> "RET_STEPSIZE_NONPOSITIVE", text |-> "For displaying non-positive stepsize."],
  [code |-> "RET_SETUPSUBJECTTOTYPE_FAILED", text |-> "Setup of SubjectToTypes failed."],
  [code |-> "RET_ADDCONSTRAINT_FAILED", text |-> "Addition of constraint to working set failed."],
  [code |-> "RET_ADDCONSTRAINT_FAILED_INFEASIBILITY", text |-> "Addition of constraint to working set failed (due to QP infeasibility)."],
  [code |-> "RET_ADDBOUND_FAILED", text |-> "Addition of bound to working set failed."],
  [code |-> "RET_ADDBOUND_FAILED_INFEASIBILITY", text |-> "Addition of bound to working set failed (due to QP infeasibility)."],
  [code |-> "RET_REMOVECONSTRAINT_FAILED", text |-> "Removal of constraint from working set failed."],
  [code |-> "RET_REMOVEBOUND_FAILED", text |-> "Removal of bound from working set failed."],
  [code |-> "RET_REMOVE_FROM_ACTIVESET", text |-> "Removing from active set..."],
  [code |-> "RET_ADD_TO_ACTIVESET", text |-> "Adding to active set..."],
  [code |-> "RET_REMOVE_FROM_ACTIVESET_FAILED", text |-> "Removing from active set failed."],
  [code |-> "RET_ADD_TO_ACTIVESET_FAILED", text |-> "Adding to active set failed."],
  [code |-> "RET_CONSTRAINT_ALREADY_ACTIVE", text |-> "Constraint is already active."],
  [code |-> "RET_ALL_CONSTRAINTS_ACTIVE", text |-> "All constraints are active, no further constraint can be added."],
  [code |-> "RET_LINEARLY_DEPENDENT", text |-> "New bound/constraint is linearly dependent."],
  [code |-> "RET_LINEARLY_INDEPENDENT", text |-> "New bound/constraint is linearly independent."],
  [code |-> "RET_LI_RESOLVED", text |-> "Linear indepence of active contraint matrix successfully resolved."],
  [code |-> "RET_ENSURELI_FAILED", text |-> "Failed to ensure linear indepence of active contraint matrix."],
  [code |-> "RET_ENSURELI_FAILED_TQ", text |-> "Abnormal termination due to TQ factorisation."],
  [code |-> "RET_ENSURELI_FAILED_NOINDEX", text |-> "QP is infeasible."],
  [code |-> "RET_ENSURELI_FAILED_CYCLING", text |-> "QP is infeasible."],
  [code |-> "RET_BOUND_ALREADY_ACTIVE", text |-> "Bound is already active."],
  [code |-> "RET_ALL_BOUNDS_ACTIVE", text |-> "All bounds are active, no further bound can be added."],
  [code |-> "RET_CONSTRAINT_NOT_ACTIVE", text |-> "Constraint is not active."],
  [code |-> "RET_BOUND_NOT_ACTIVE", text |-> "Bound is not active."],
  [code |-> "RET_HESSIAN_NOT_SPD", text |-> "Projected Hessian matrix not positive definite."],
  [code |-> "RET_HESSIAN_INDEFINITE", text |-> "Hessian matrix is indefinite."],
  [code |-> "RET_MATRIX_SHIFT_FAILED", text |-> "Unable to update matrices or to transform vectors."],
  [code |-> "RET_MATRIX_FACTORISATION_FAILED", text |-> "Unable to calculate new matrix factorisations."],
  [code |-> "RET_PRINT_ITERATION_FAILED", text |-> "Unable to print information on current iteration."],
  [code |-> "RET_NO_GLOBAL_MESSAGE_OUTPUTFILE", text |-> "No global message output file initialized."],
  [code |-> "RET_DISABLECONSTRAINTS_FAILED", text |-> "Unable to disbable constraints."],
  [code |-> "RET_ENABLECONSTRAINTS_FAILED", text |-> "Unable to enbable constraints."],
  [code |-> "RET_ALREADY_ENABLED", text |-> "Bound or constraint is already enabled."],
  [code |-> "RET_ALREADY_DISABLED", text |-> "Bound or constraint is already disabled."],
  [code |-> "RET_NO_HESSIAN_SPECIFIED", text |-> "No Hessian matrix has been specified."],
  [code |-> "RET_USING_REGULARISATION", text |-> "Using regularisation as Hessian matrix is not positive definite."],
  [code |-> "RET_EPS_MUST_BE_POSITVE", text |-> "Eps for regularisation must be sufficiently positive."],
  [code |-> "RET_REGSTEPS_MUST_BE_POSITVE", text |-> "Maximum number of regularisation steps must be non-negative."],
  [code |-> "RET_HESSIAN_ALREADY_REGULARISED", text |-> "Hessian has been already regularised."],
  [code |-> "RET_CANNOT_REGULARISE_IDENTITY", text |-> "Identity Hessian matrix cannot be regularised."],
  [code |-> "RET_NO_REGSTEP_NWSR", text |-> "No additional regularisation step could be performed due to limits."],
  [code |-> "RET_FEWER_REGSTEPS_NWSR", text |-> "Fewer additional regularisation steps have been performed due to limits."],
  [code |-> "RET_CHOLESKY_OF_ZERO_HESSIAN", text |-> "Cholesky decomposition of (unregularised) zero Hessian matrix."],
  [code |-> "RET_CONSTRAINTS_ARE_NOT_SCALED", text |-> "When defining __MANY_CONSTRAINTS__, l1 norm of each constraint must be not greater than one."],
  [code |-> "RET_ERROR_IN_CONSTRAINTPRODUCT", text |-> "Error in user-defined constraint product function."],
  [code |-> "RET_UPDATEMATRICES_FAILED", text |-> "Unable to update QP matrices."],
  [code |-> "RET_UPDATEMATRICES_FAILED_AS_QP_NOT_SOLVED", text |-> "Unable to update matrices as previous QP is not solved."],
  [code |-> "RET_UNABLE_TO_OPEN_FILE", text |-> "Unable to open file."],
  [code |-> "RET_UNABLE_TO_WRITE_FILE", text |-> "Unable to write into file."],
  [code |-> "RET_UNABLE_TO_READ_FILE", text |-> "Unable to read from file."],
  [code |-> "RET_FILEDATA_INCONSISTENT", text |-> "File contains inconsistent data."],
  [code |-> "RET_UNABLE_TO_ANALYSE_QPROBLEM", text |-> "Unable to analyse (S)QProblem(B) object"],
  [code |-> "RET_NWSR_SET_TO_ONE", text |-> "Maximum number of working set changes was set to 1."],
  [code |-> "RET_BENCHMARK_ABORTED", text |-> "Benchmark aborted."],
  [code |-> "RET_UNABLE_TO_READ_BENCHMARK", text |-> "Unable to read benchmark data."],
  [code |-> "RET_INITIAL_QP_SOLVED", text |-> "Initial QP solved."],
  [code |-> "RET_QP_SOLUTION_STARTED", text |-> "Solving QP..."],
  [code |-> "RET_BENCHMARK_SUCCESSFUL", text |-> "Benchmark terminated successfully."]
>>

\* The value of the enumerator qpOASES::<name>.
Code(name) == (CHOOSE i \in 1..Len(ReturnValues) : ReturnValues[i].code = name) - 1

SUCCESSFUL_RETURN == Code("SUCCESSFUL_RETURN")
RET_MAX_NWSR_REACHED == Code("RET_MAX_NWSR_REACHED")
RET_QP_ALREADY_INITIALISED == Code("RET_QP_ALREADY_INITIALISED")
RET_INIT_FAILED_INFEASIBILITY == Code("RET_INIT_FAILED_INFEASIBILITY")
RET_INIT_FAILED_UNBOUNDEDNESS == Code("RET_INIT_FAILED_UNBOUNDEDNESS")
RET_INIT_FAILED_CHOLESKY == Code("RET_INIT_FAILED_CHOLESKY")
RET_HOTSTART_FAILED_AS_QP_NOT_INITIALISED == Code("RET_HOTSTART_FAILED_AS_QP_NOT_INITIALISED")
RET_HOTSTART_STOPPED_INFEASIBILITY == Code("RET_HOTSTART_STOPPED_INFEASIBILITY")
RET_HOTSTART_STOPPED_UNBOUNDEDNESS == Code("RET_HOTSTART_STOPPED_UNBOUNDEDNESS")
RET_HESSIAN_INDEFINITE == Code("RET_HESSIAN_INDEFINITE")

\* The flags the switch has a case for.
KnownFlags == {i - 1 : i \in 1..Len(ReturnValues)}

(***************************************************************************)
(* operator<<(ostream&, int): the decimal text of an integer.              *)
(***************************************************************************)
Digit(d) == SubSeq("0123456789", d + 1, d + 1)

RECURSIVE NatToString(_)
NatToString(k) == IF k < 10 THEN Digit(k) ELSE NatToString(k \div 10) \o Digit(k % 10)

IntToString(v) == IF v < 0 THEN "-" \o NatToString(-v) ELSE NatToString(v)

\* A mapper that forgets the flag in its default text.
getErrorMessage_NoFlag(flag) ==
  IF flag \in KnownFlags
    THEN ReturnValues[flag + 1].text
    ELSE "Unknown error flag. Consult qpOASES documentation."

(***************************************************************************)
(* QpoasesInterface::getErrorMessage: the text of the case of flag, and    *)
(* for a flag without a case the default text, which carries the flag.     *)
(***************************************************************************)
getErrorMessage(flag) ==
  IF flag \in KnownFlags
    THEN ReturnValues[flag + 1].text
    ELSE "Unknown error flag: " \o IntToString(flag) \o ". Consult qpOASES documentation."

(***************************************************************************)
(* The sets the inputs are drawn from.                                     *)
(***************************************************************************)
\* The memory objects (QpoasesMemory) a caller holds of the interface.
Mems == {1, 2}

\* The memory object of a caller that holds one only.
Solo == {1}

\* The output slots of eval: res[QPSOL_COST], res[QPSOL_X],
\* res[QPSOL_LAM_X], res[QPSOL_LAM_A].
Slots == {"cost", "x", "lam_x", "lam_a"}

\* The numerical data of one solve, by what the backend makes of them when
\* it solves them: it converges, it uses up nWSR, or it finds the QP
\* infeasible, unbounded or its Hessian indefinite.
Problems == {"solvable", "budget", "infeasible", "unbounded", "indefinite"}

(***************************************************************************)
(* The options of the interface.  An option the caller has not set is      *)
(* Unset; one set to v is <<v>>.                                           *)
(***************************************************************************)
Unset == <<>>

\* PrintLevel_to_string, lines 604-613.
PrintLevel_to_string(b) ==
  CASE b = "PL_TABULAR" -> "tabular"
    [] b = "PL_NONE"    -> "none"
    [] b = "PL_LOW"     -> "low"
    [] b = "PL_MEDIUM"  -> "medium"
    [] b = "PL_HIGH"    -> "high"
    [] OTHER            -> "not_implemented"

\* string_to_PrintLevel, lines 615-629; "not_implemented" is the error of
\* its last branch.
string_to_PrintLevel(b) ==
  CASE b = "tabular" -> "PL_TABULAR"
    [] b = "none"    -> "PL_NONE"
    [] b = "low"     -> "PL_LOW"
    [] b = "medium"  -> "PL_MEDIUM"
    [] b = "high"    -> "PL_HIGH"
    [] OTHER         -> "not_implemented"

\* SubjectToStatus_to_string, lines 577-586: there is no case for ST_UPPER.
SubjectToStatus_to_string(b) ==
  CASE b = "ST_INACTIVE"         -> "inactive"
    [] b = "ST_LOWER"            -> "lower"
    [] b = "ST_INFEASIBLE_LOWER" -> "infeasible_lower"
    [] b = "ST_INFEASIBLE_UPPER" -> "infeasible_upper"
    [] b = "ST_UNDEFINED"        -> "undefined"
    [] OTHER                     -> "not_implemented"

\* string_to_SubjectToStatus, lines 588-602: there is no branch for "upper".
string_to_SubjectToStatus(b) ==
  CASE b = "inactive"         -> "ST_INACTIVE"
    [] b = "lower"            -> "ST_LOWER"
    [] b = "infeasible_lower" -> "ST_INFEASIBLE_LOWER"
    [] b = "infeasible_upper" -> "ST_INFEASIBLE_UPPER"
    [] b = "undefined"        -> "ST_UNDEFINED"
    [] OTHER                  -> "not_implemented"

\* BooleanType_to_bool, lines 565-571.
BooleanType_to_bool(b) ==
  CASE b = "BT_TRUE"  -> TRUE
    [] b = "BT_FALSE" -> FALSE
    [] OTHER          -> "not_implemented"

\* bool_to_BooleanType, lines 573-575.
bool_to_BooleanType(b) == IF b THEN "BT_TRUE" ELSE "BT_FALSE"

\* The enumerations of the backend that the interface converts.
PrintLevel == {"PL_TABULAR", "PL_NONE", "PL_LOW", "PL_MEDIUM", "PL_HIGH"}

SubjectToStatus ==
  {"ST_LOWER", "ST_INACTIVE", "ST_UPPER", "ST_INFEASIBLE_LOWER",
   "ST_INFEASIBLE_UPPER", "ST_UNDEFINED"}

BooleanType == {"BT_FALSE", "BT_TRUE"}

\* qpOASES::Options as its constructor leaves it: the members the
\* interface converts to strings.
ops == [printLevel |-> "PL_MEDIUM", initialStatusBounds |-> "ST_LOWER"]

\* The constructor's addOption calls: the default of each option (Unset
\* where GenericType() is given) and the values of a string option that the
\* declaration allows.
Defaults ==
  [nWSR |-> Unset, CPUtime |-> Unset,
   printLevel |-> <<PrintLevel_to_string(ops.printLevel)>>,
   initialStatusBounds |-> <<SubjectToStatus_to_string(ops.initialStatusBounds)>>]

Allowed ==
  [printLevel |-> {"none", "low", "medium", "high"},
   initialStatusBounds |-> {"inactive", "lower", "upper"}]

\* No option set by the caller.
NoOptions == [nWSR |-> Unset, CPUtime |-> Unset, printLevel |-> Unset,
              initialStatusBounds |-> Unset]

\* QpoasesInterface::QpoasesInterface with the options opts set by the
\* caller; n and nc are the dimensions of the sparsity patterns st.
QpoasesInterface(n, nc, inputs_check, opts) ==
  [state |-> "constructed", n_ |-> n, nc_ |-> nc, inputs_check_ |-> inputs_check,
   opts |-> opts, max_nWSR_ |-> 0, max_cputime_ |-> 0, sz_w |-> 0]

hasSetOption(self, name) == self.opts[name] # Unset

option(self, name) ==
  IF hasSetOption(self, name) THEN self.opts[name][1] ELSE Defaults[name][1]

\* alloc_w(sz_w, persistent = true) on an interface that has asked for sz
\* doubles so far: persistent requests add up.
alloc_w(sz, sz_w) == sz + sz_w

\* init, lines 153-160: the work vectors asked for, in order: h, a, g, lbx,
\* ubx, lba, uba, dual.
WorkVectors(self) ==
  <<self.n_ * self.n_, self.n_ * self.nc_, self.n_, self.n_, self.n_,
    self.nc_, self.nc_, self.n_ + self.nc_>>

RECURSIVE AllocAll(_, _)
AllocAll(sz, reqs) ==
  IF reqs = <<>> THEN sz ELSE AllocAll(alloc_w(sz, Head(reqs)), Tail(reqs))

\* An init that takes a budget of no iteration for an error.
init_PositiveBudget(self) ==
  LET nWSR == IF hasSetOption(self, "nWSR") THEN option(self, "nWSR")
                                            ELSE 5 * (self.n_ + self.nc_)
      cputime == IF hasSetOption(self, "CPUtime") THEN option(self, "CPUtime") ELSE -1
  IN IF hasSetOption(self, "nWSR") /\ ~(nWSR > 0)
       THEN [self EXCEPT !.state = "failed", !.max_nWSR_ = nWSR]
       ELSE IF hasSetOption(self, "CPUtime") /\ ~(cputime > 0)
         THEN [self EXCEPT !.state = "failed", !.max_nWSR_ = nWSR,
                           !.max_cputime_ = cputime]
         ELSE [self EXCEPT !.state = "initialised", !.max_nWSR_ = nWSR,
                           !.max_cputime_ = cputime,
                           !.sz_w = AllocAll(self.sz_w, WorkVectors(self))]

\* An init that asks for no workspace for the multipliers.
init_NoDual(self) ==
  LET nWSR == IF hasSetOption(self, "nWSR") THEN option(self, "nWSR")
                                            ELSE 5 * (self.n_ + self.nc_)
      cputime == IF hasSetOption(self, "CPUtime") THEN option(self, "CPUtime") ELSE -1
  IN IF hasSetOption(self, "nWSR") /\ ~(nWSR >= 0)
       THEN [self EXCEPT !.state = "failed", !.max_nWSR_ = nWSR]
       ELSE IF hasSetOption(self, "CPUtime") /\ ~(cputime > 0)
         THEN [self EXCEPT !.state = "failed", !.max_nWSR_ = nWSR,
                           !.max_cputime_ = cputime]
         ELSE [self EXCEPT !.state = "initialised", !.max_nWSR_ = nWSR,
                           !.max_cputime_ = cputime,
                           !.sz_w = AllocAll(self.sz_w, SubSeq(WorkVectors(self), 1, 7))]

(***************************************************************************)
(* QpoasesInterface::init, lines 135-162: the budgets are read from the    *)
(* options and asserted, then the work vectors are asked for.  A failed    *)
(* casadi_assert leaves the interface "failed".                            *)
(***************************************************************************)
init(self) ==
  LET nWSR == IF hasSetOption(self, "nWSR") THEN option(self, "nWSR")
                                            ELSE 5 * (self.n_ + self.nc_)
      cputime == IF hasSetOption(self, "CPUtime") THEN option(self, "CPUtime") ELSE -1
  IN IF hasSetOption(self, "nWSR") /\ ~(nWSR >= 0)
       THEN [self EXCEPT !.state = "failed", !.max_nWSR_ = nWSR]
       ELSE IF hasSetOption(self, "CPUtime") /\ ~(cputime > 0)
         THEN [self EXCEPT !.state = "failed", !.max_nWSR_ = nWSR,
                           !.max_cputime_ = cputime]
         ELSE [self EXCEPT !.state = "initialised", !.max_nWSR_ = nWSR,
                           !.max_cputime_ = cputime,
                           !.sz_w = AllocAll(self.sz_w, WorkVectors(self))]

\* An eval that passes the time limit whatever its value.
Budget_AlwaysTimed(self) ==
  [nWSR |-> self.max_nWSR_, cputime_ptr |-> <<self.max_cputime_>>]

\* eval, lines 229-231: the budget a solve hands to the backend: its own
\* copy of max_nWSR_, and a pointer to its own copy of max_cputime_, or
\* the null pointer (<<>>) when that is not positive.
Budget(self) ==
  [nWSR |-> self.max_nWSR_,
   cputime_ptr |-> IF self.max_cputime_ <= 0 THEN <<>> ELSE <<self.max_cputime_>>]

\* The interfaces a caller solves on: initialised, with the dimensions n_
\* and nc_ of the QP, the option inputs_check_ read by eval, and no option
\* of the backend set.
Interfaces ==
  {init(QpoasesInterface(1, nc, inputs_check, NoOptions)) :
     nc \in {0, 1}, inputs_check \in BOOLEAN}

\* The interfaces that are set up: constructed and not yet initialised.
\* The budgets vary with the dimensions, the string options on their own.
Dims == 0..MaxDim

BudgetOptions ==
  [nWSR : {Unset, <<-1>>, <<0>>, <<3>>}, CPUtime : {Unset, <<-1>>, <<0>>, <<2>>},
   printLevel : {Unset}, initialStatusBounds : {Unset}]

StringOptions ==
  [nWSR : {Unset}, CPUtime : {Unset},
   printLevel : {Unset} \cup {<<v>> : v \in Allowed.printLevel},
   initialStatusBounds : {Unset} \cup {<<v>> : v \in Allowed.initialStatusBounds}]

Setups ==
  {QpoasesInterface(n, nc, TRUE, o) : n \in Dims, nc \in Dims, o \in BudgetOptions}
    \cup {QpoasesInterface(1, nc, TRUE, o) : nc \in {0, 1}, o \in StringOptions}

\* The inputs arg[QPSOL_LBX], arg[QPSOL_UBX], arg[QPSOL_LBA], arg[QPSOL_UBA]
\* of a solve on the interface self: every bound is 0, except that one
\* lower bound may be 1, above its upper bound.
Raised(k, i) == [j \in 1..k |-> IF j = i THEN 1 ELSE 0]

Args(self) ==
  LET zero == [lbx |-> Raised(self.n_, 0), ubx |-> Raised(self.n_, 0),
               lba |-> Raised(self.nc_, 0), uba |-> Raised(self.nc_, 0)]
  IN {zero}
       \cup {[zero EXCEPT !.lbx = Raised(self.n_, i)] : i \in 1..self.n_}
       \cup {[zero EXCEPT !.lba = Raised(self.nc_, j)] : j \in 1..self.nc_}

\* The output pointers a caller may pass: a slot is null or points to a
\* buffer that holds the caller's own data ("unset").
ResArgs == [Slots -> {"null", "unset"}]

NoRes == [s \in Slots |-> "null"]

NoArg == [lbx |-> <<>>, ubx |-> <<>>, lba |-> <<>>, uba |-> <<>>]

VARIABLES
  iface,    \* the QpoasesInterface: its state, n_, nc_, inputs_check_, the
            \* options set, max_nWSR_, max_cputime_ and the workspace asked for
  mem,      \* mem[m]: the QpoasesMemory m: [life, called_once, qp]
  obj,      \* obj[m]: the qpOASES object m.qp points to, or pointed to last
  hist,     \* hist[m]: what has happened to m since its last init_memory
  last,     \* the most recent call, the state it found and what it returned
  mapped,   \* the most recent call of a static function of the interface:
            \* <<>>, <<[flag, text]>> of getErrorMessage, or
            \* <<[fn, arg, value, back]>> of the option conversions
  aborted,  \* the process has been ended by the runtime's heap check
  solvers_, \* solvers_[cls]: the plugins registered for the class cls, by name
  made,     \* made[cls]: the number of instances of cls created by name
  pcall,    \* the most recent call on the plugin registry
  linsol    \* the linear solver instance a caller holds, and its last call

vars == <<iface, mem, obj, hist, last, mapped, aborted, solvers_, made, pcall, linsol>>

\* What the calls on the interface and its memories leave alone.
plugin_vars == <<solvers_, made, pcall, linsol>>

NoObject == [kind |-> "none", status |-> "QPS_NOTINITIALISED", sol |-> "none",
             options |-> FALSE, deletes |-> 0]

(***************************************************************************)
(* The qpOASES object behind m.qp (QProblemB or SQProblem).                *)
(***************************************************************************)
\* The statuses in which hotstart accepts an object.
Hotstartable == {"QPS_HOMOTOPYQPSOLVED", "QPS_SOLVED"}

\* What the backend makes of the data prob: the value init returns.
ColdFlag(prob) ==
  CASE prob = "solvable"   -> SUCCESSFUL_RETURN
    [] prob = "budget"     -> RET_MAX_NWSR_REACHED
    [] prob = "infeasible" -> RET_INIT_FAILED_INFEASIBILITY
    [] prob = "unbounded"  -> RET_INIT_FAILED_UNBOUNDEDNESS
    [] prob = "indefinite" -> RET_INIT_FAILED_CHOLESKY

\* The value hotstart returns on an object it accepts.
WarmFlag(prob) ==
  CASE prob = "solvable"   -> SUCCESSFUL_RETURN
    [] prob = "budget"     -> RET_MAX_NWSR_REACHED
    [] prob = "infeasible" -> RET_HOTSTART_STOPPED_INFEASIBILITY
    [] prob = "unbounded"  -> RET_HOTSTART_STOPPED_UNBOUNDEDNESS
    [] prob = "indefinite" -> RET_HESSIAN_INDEFINITE

\* The object after the backend has worked on prob.
Solved(o, prob) ==
  CASE prob = "solvable" -> [o EXCEPT !.status = "QPS_SOLVED", !.sol = "optimum"]
    [] prob = "budget"   -> [o EXCEPT !.status = "QPS_HOMOTOPYQPSOLVED", !.sol = "iterate"]
    [] OTHER             -> [o EXCEPT !.status = "QPS_PERFORMINGHOMOTOPY", !.sol = "none"]

\* QProblemB::init, SQProblem::init: a cold start; refused on an object that
\* has been initialised and not reset ("QProblem has already been initialized.").
qp_init(o, prob) ==
  IF o.status # "QPS_NOTINITIALISED"
    THEN [ret |-> RET_QP_ALREADY_INITIALISED, obj |-> o]
    ELSE [ret |-> ColdFlag(prob), obj |-> Solved(o, prob)]

\* QProblemB::reset
qp_reset(o) ==
  [ret |-> SUCCESSFUL_RETURN,
   obj |-> [o EXCEPT !.status = "QPS_NOTINITIALISED", !.sol = "none"]]

\* SQProblem::hotstart: a warm start from the working set of the previous
\* QP; refused when there is none ("Unable to perform homotopy as previous
\* QP is not solved.").
qp_hotstart(o, prob) ==
  IF o.status \notin Hotstartable
    THEN [ret |-> RET_HOTSTART_FAILED_AS_QP_NOT_INITIALISED, obj |-> o]
    ELSE [ret |-> WarmFlag(prob), obj |-> Solved(o, prob)]

qp_call(fn, o, prob) ==
  CASE fn = "init"     -> qp_init(o, prob)
    [] fn = "reset"    -> qp_reset(o)
    [] fn = "hotstart" -> qp_hotstart(o, prob)

(***************************************************************************)
(* Qpsol::checkInputs: TRUE when every lower bound is at most its upper    *)
(* bound; eval raises an error otherwise.                                  *)
(***************************************************************************)
checkInputs(self, arg) ==
  /\ \A i \in 1..self.n_ : arg.lbx[i] <= arg.ubx[i]
  /\ \A j \in 1..self.nc_ : arg.lba[j] <= arg.uba[j]

\* An eval that never checks its inputs.
InputsRejected_Never(self, arg) == FALSE

\* eval, lines 216-218: the solve is refused before anything else is done.
InputsRejected(self, arg) == self.inputs_check_ /\ ~checkInputs(self, arg)

\* An eval that initialises the backend anew on every solve.
evalCalls_AlwaysCold(called_once, nc_) == <<"init">>

\* An eval with the hotstart of line 258 in the place of reset and init.
evalCalls_HotstartB(called_once, nc_) ==
  IF ~called_once THEN <<"init">> ELSE <<"hotstart">>

(***************************************************************************)
(* eval, lines 245-263: the backend functions a solve calls, in order.     *)
(***************************************************************************)
evalCalls(called_once, nc_) ==
  IF ~called_once
    THEN <<"init">>
    ELSE IF nc_ = 0 THEN <<"reset", "init">> ELSE <<"hotstart">>

\* The calls fns made one after the other on the object o with the data
\* prob: the object they leave and what each returned.
RECURSIVE RunCalls(_, _, _)
RunCalls(fns, o, prob) ==
  IF fns = <<>>
    THEN [obj |-> o, calls |-> <<>>]
    ELSE LET r == qp_call(Head(fns), o, prob)
             rest == RunCalls(Tail(fns), r.obj, prob)
         IN [obj |-> rest.obj,
             calls |-> <<[fn |-> Head(fns), ret |-> r.ret]>> \o rest.calls]

\* An eval that does not test the flag.
Failed_Never(flag) == FALSE

\* An eval that accepts a successful return only.
Failed_Strict(flag) == flag # SUCCESSFUL_RETURN

\* eval, line 264: the flags on which eval throws.
Failed(flag) == flag # SUCCESSFUL_RETURN /\ flag # RET_MAX_NWSR_REACHED

\* casadi_copy(x, n, y): nothing is written through a null y.
casadi_copy(x, y) == IF y = "null" THEN "null" ELSE x

\* An eval that writes the multipliers of the bounds whenever either
\* multiplier is asked for.
WriteOutputs_BothMultipliers(res, o) ==
  LET dual == "-" \o o.sol
      wantsDual == res["lam_x"] # "null" \/ res["lam_a"] # "null"
  IN [s \in Slots |->
        CASE s = "cost"  -> IF res[s] # "null" THEN o.sol ELSE res[s]
          [] s = "x"     -> IF res[s] # "null" THEN o.sol ELSE res[s]
          [] s = "lam_x" -> IF wantsDual THEN dual ELSE res[s]
          [] OTHER       -> IF wantsDual THEN casadi_copy(dual, res[s]) ELSE res[s]]

(***************************************************************************)
(* eval, lines 268-281: the output buffers after a solve that did not      *)
(* throw, from the solution the object o holds.                            *)
(***************************************************************************)
WriteOutputs(res, o) ==
  LET dual == "-" \o o.sol
      wantsDual == res["lam_x"] # "null" \/ res["lam_a"] # "null"
  IN [s \in Slots |->
        CASE s = "cost"  -> IF res[s] # "null" THEN o.sol ELSE res[s]
          [] s = "x"     -> IF res[s] # "null" THEN o.sol ELSE res[s]
          [] OTHER       -> IF wantsDual THEN casadi_copy(dual, res[s]) ELSE res[s]]

\* The slices cut from the workspace one after the other, from the offset
\* w on: double* p = w; w += len.
RECURSIVE CarveFrom(_, _, _)
CarveFrom(w, names, lens) ==
  IF names = <<>>
    THEN <<>>
    ELSE <<[name |-> Head(names), off |-> w, len |-> Head(lens)]>>
           \o CarveFrom(w + Head(lens), Tail(names), Tail(lens))

\* An eval that does not advance w past lb.
Carve_SharedBounds(self, dual) ==
  LET first == CarveFrom(0, <<"h", "a", "g", "lb">>,
                         <<self.n_ * self.n_, self.n_ * self.nc_, self.n_, self.n_>>)
      w == first[4].off
  IN first \o CarveFrom(w, <<"ub", "lbA", "ubA">> \o (IF dual THEN <<"dual">> ELSE <<>>),
                        <<self.n_, self.nc_, self.nc_>>
                          \o (IF dual THEN <<self.n_ + self.nc_>> ELSE <<>>))

(***************************************************************************)
(* eval, lines 220-243 and 275: the slices of the workspace w a solve      *)
(* uses: h, a, g, lb, ub, lbA, ubA and, when it gets to line 275 (dual),   *)
(* dual.                                                                   *)
(***************************************************************************)
Carve(self, dual) ==
  CarveFrom(0, <<"h", "a", "g", "lb", "ub", "lbA", "ubA">>
                 \o (IF dual THEN <<"dual">> ELSE <<>>),
            <<self.n_ * self.n_, self.n_ * self.nc_, self.n_, self.n_, self.n_,
              self.nc_, self.nc_>> \o (IF dual THEN <<self.n_ + self.nc_>> ELSE <<>>))

\* eval, line 274: the multipliers are asked for.
WantsDual(res) == res["lam_x"] # "null" \/ res["lam_a"] # "null"

\* getDualSolution: the multipliers the object o holds, len of them, of
\* the bounds first and of the constraints after; each position has a
\* value of its own.
getDualSolution(o, len) ==
  [k \in 1..len |-> IF o.sol = "optimum" THEN k ELSE k + len]

\* casadi_scal(n, alpha, x): x scaled by alpha.
casadi_scal(alpha, x) == [k \in DOMAIN x |-> alpha * x[k]]

\* An eval that copies lam_a from the start of dual.
Multipliers_Unsplit(self, res, o) ==
  LET dual == casadi_scal(-1, getDualSolution(o, self.n_ + self.nc_))
  IN [lam_x |-> casadi_copy(SubSeq(dual, 1, self.n_), res["lam_x"]),
      lam_a |-> casadi_copy(SubSeq(dual, 1, self.nc_), res["lam_a"])]

(***************************************************************************)
(* eval, lines 274-281, when the multipliers are asked for: dual is        *)
(* fetched, scaled by -1 and copied, its first n_ entries to lam_x and the *)
(* nc_ entries after them to lam_a.                                        *)
(***************************************************************************)
Multipliers(self, res, o) ==
  LET dual == casadi_scal(-1, getDualSolution(o, self.n_ + self.nc_))
  IN [lam_x |-> casadi_copy(SubSeq(dual, 1, self.n_), res["lam_x"]),
      lam_a |-> casadi_copy(SubSeq(dual, self.n_ + 1, self.n_ + self.nc_),
                            res["lam_a"])]

\* The multipliers of a call that has written none.
NoLam == [lam_x |-> "null", lam_a |-> "null"]

\* What the backend leaves in the budget it was handed, by reference and
\* by pointer: the working set changes and the time it has used.
Used(budget, prob) ==
  [nWSR |-> IF prob = "budget" THEN budget.nWSR ELSE 0, cputime |-> 0]

\* An eval that hands the backend its members max_nWSR_ and max_cputime_.
BackendWrites_Members(self, used) ==
  [self EXCEPT !.max_nWSR_ = used.nWSR, !.max_cputime_ = used.cputime]

\* eval, lines 229-231 and 246-262: the backend writes to nWSR and cputime,
\* which are locals of eval; the interface is as before.
BackendWrites(self, used) == self

\* delete m.qp
delete(o) == [o EXCEPT !.deletes = IF @ < 2 THEN @ + 1 ELSE 2]

\* An init_memory that leaves the creation of the object to the first
\* solve.
init_memory_NoObject(M, o, self, alloc_ok) ==
  LET freed == IF M.qp # "null" THEN delete(o) ELSE o
  IN [mem |-> [M EXCEPT !.called_once = FALSE, !.qp = "null"],
      obj |-> freed, error |-> "none",
      freed |-> IF M.qp # "null" THEN freed ELSE NoObject]

\* An init_memory that creates an SQProblem whatever nc_ is.
init_memory_AlwaysSQ(M, o, self, alloc_ok) ==
  LET freed == IF M.qp # "null" THEN delete(o) ELSE o
      fresh == [kind |-> "SQProblem",
                status |-> "QPS_NOTINITIALISED", sol |-> "none",
                options |-> FALSE, deletes |-> 0]
      printLevel == string_to_PrintLevel(option(self, "printLevel"))
      initialStatusBounds ==
        string_to_SubjectToStatus(option(self, "initialStatusBounds"))
  IN IF ~alloc_ok
       THEN [mem |-> [M EXCEPT !.called_once = FALSE],
             obj |-> freed, error |-> "bad_alloc",
             freed |-> IF M.qp # "null" THEN freed ELSE NoObject]
       ELSE IF "not_implemented" \in {printLevel, initialStatusBounds}
         THEN [mem |-> [M EXCEPT !.called_once = FALSE, !.qp = "object"],
               obj |-> fresh, error |-> "not_implemented",
               freed |-> IF M.qp # "null" THEN freed ELSE NoObject]
         ELSE [mem |-> [M EXCEPT !.called_once = FALSE, !.qp = "object"],
               obj |-> [fresh EXCEPT !.options = TRUE], error |-> "none",
               freed |-> IF M.qp # "null" THEN freed ELSE NoObject]

\* An init_memory that leaves called_once as it finds it.
init_memory_KeepsTag(M, o, self, alloc_ok) ==
  LET freed == IF M.qp # "null" THEN delete(o) ELSE o
      fresh == [kind |-> IF self.nc_ = 0 THEN "QProblemB" ELSE "SQProblem",
                status |-> "QPS_NOTINITIALISED", sol |-> "none",
                options |-> FALSE, deletes |-> 0]
      printLevel == string_to_PrintLevel(option(self, "printLevel"))
      initialStatusBounds ==
        string_to_SubjectToStatus(option(self, "initialStatusBounds"))
  IN IF ~alloc_ok
       THEN [mem |-> M,
             obj |-> freed, error |-> "bad_alloc",
             freed |-> IF M.qp # "null" THEN freed ELSE NoObject]
       ELSE IF "not_implemented" \in {printLevel, initialStatusBounds}
         THEN [mem |-> [M EXCEPT !.qp = "object"],
               obj |-> fresh, error |-> "not_implemented",
               freed |-> IF M.qp # "null" THEN freed ELSE NoObject]
         ELSE [mem |-> [M EXCEPT !.qp = "object"],
               obj |-> [fresh EXCEPT !.options = TRUE], error |-> "none",
               freed |-> IF M.qp # "null" THEN freed ELSE NoObject]

(***************************************************************************)
(* QpoasesInterface::init_memory on the memory M, whose qp points to o.    *)
(* alloc_ok is whether operator new yields an object or throws.  The       *)
(* string options are converted once the object exists (lines 177, 199);   *)
(* a failed conversion throws before setOptions (line 209).                *)
(***************************************************************************)
init_memory(M, o, self, alloc_ok) ==
  LET freed == IF M.qp # "null" THEN delete(o) ELSE o
      fresh == [kind |-> IF self.nc_ = 0 THEN "QProblemB" ELSE "SQProblem",
                status |-> "QPS_NOTINITIALISED", sol |-> "none",
                options |-> FALSE, deletes |-> 0]
      printLevel == string_to_PrintLevel(option(self, "printLevel"))
      initialStatusBounds ==
        string_to_SubjectToStatus(option(self, "initialStatusBounds"))
  IN IF ~alloc_ok
       THEN [mem |-> [M EXCEPT !.called_once = FALSE],
             obj |-> freed, error |-> "bad_alloc",
             freed |-> IF M.qp # "null" THEN freed ELSE NoObject]
       ELSE IF "not_implemented" \in {printLevel, initialStatusBounds}
         THEN [mem |-> [M EXCEPT !.called_once = FALSE, !.qp = "object"],
               obj |-> fresh, error |-> "not_implemented",
               freed |-> IF M.qp # "null" THEN freed ELSE NoObject]
         ELSE [mem |-> [M EXCEPT !.called_once = FALSE, !.qp = "object"],
               obj |-> [fresh EXCEPT !.options = TRUE], error |-> "none",
               freed |-> IF M.qp # "null" THEN freed ELSE NoObject]

(***************************************************************************)
(* The plugin registry (PluginInterface<Derived>::solvers_, one map for    *)
(* each solver class) and the linear solver capability (Linsol).           *)
(***************************************************************************)
Classes == {"Qpsol", "Linsol"}

\* The names a caller asks for.
Names == {"qpoases", "csparse", "lapacklu", "nosuch"}

\* casadi_register_qpsol_qpoases, lines 35-43: the descriptor it fills in
\* and the status it returns.
casadi_register_qpsol_qpoases ==
  [ret |-> 0,
   plugin |-> [creator |-> "QpoasesInterface::creator", name |-> "qpoases",
               doc |-> "QpoasesInterface::meta_doc", version |-> 23]]

\* The registration function of another library that names its plugin
\* name as well.
Rival(name) ==
  [ret |-> 0,
   plugin |-> [creator |-> "Rival::creator", name |-> name,
               doc |-> "Rival::meta_doc", version |-> 1]]

\* The registration function of the linear solver plugin name.
casadi_register_linsol(name) ==
  [ret |-> 0,
   plugin |-> [creator |-> name \o "::creator", name |-> name,
               doc |-> name \o "::meta_doc", version |-> 1]]

\* The shared libraries load_plugin finds: the registration function the
\* library of the plugin name of cls exports, <<>> when there is none.
Library(cls, name) ==
  CASE cls = "Qpsol" /\ name = "qpoases" -> <<casadi_register_qpsol_qpoases>>
    [] cls = "Linsol" /\ name \in {"csparse", "lapacklu"} -> <<casadi_register_linsol(name)>>
    [] OTHER -> <<>>

\* The registration functions a program may hand to registerPlugin.
RegFcns(cls) ==
  IF cls = "Qpsol"
    THEN {casadi_register_qpsol_qpoases, Rival("qpoases")}
    ELSE {casadi_register_linsol("csparse"), casadi_register_linsol("lapacklu"),
          Rival("csparse")}

\* A registry where the last writer wins.
registerPlugin_LastWriterWins(solvers, regfcn) ==
  IF regfcn.ret # 0
    THEN [solvers |-> solvers, error |-> "ConfigurationError"]
    ELSE [solvers |-> [n \in DOMAIN solvers \cup {regfcn.plugin.name} |->
                         IF n = regfcn.plugin.name THEN regfcn.plugin ELSE solvers[n]],
          error |-> "none"]

\* registerPlugin(regfcn) on the map solvers of one class: the function
\* fills in a descriptor; a name that is in the map is rejected.
registerPlugin(solvers, regfcn) ==
  IF regfcn.ret # 0 \/ regfcn.plugin.name \in DOMAIN solvers
    THEN [solvers |-> solvers, error |-> "ConfigurationError"]
    ELSE [solvers |-> [n \in DOMAIN solvers \cup {regfcn.plugin.name} |->
                         IF n = regfcn.plugin.name THEN regfcn.plugin ELSE solvers[n]],
          error |-> "none"]

\* A lookup that loads the library of a name it does not find.
has_plugin_AutoLoad(cls, solvers, name) ==
  IF name \in DOMAIN solvers
    THEN [solvers |-> solvers, result |-> TRUE]
    ELSE IF Library(cls, name) = <<>>
      THEN [solvers |-> solvers, result |-> FALSE]
      ELSE [solvers |-> registerPlugin(solvers, Library(cls, name)[1]).solvers,
            result |-> TRUE]

\* has_plugin(name): whether name is in the map; the map is left alone.
has_plugin(cls, solvers, name) ==
  [solvers |-> solvers, result |-> name \in DOMAIN solvers]

\* load_plugin(name): the explicit load of the library of name, which
\* registers its plugin.
load_plugin(cls, solvers, name) ==
  IF Library(cls, name) = <<>>
    THEN [solvers |-> solvers, error |-> "ConfigurationError"]
    ELSE registerPlugin(solvers, Library(cls, name)[1])

\* doc(name): the documentation of a registered plugin.
doc(cls, solvers, name) ==
  IF name \in DOMAIN solvers
    THEN [solvers |-> solvers, error |-> "none", result |-> solvers[name].doc]
    ELSE [solvers |-> solvers, error |-> "ConfigurationError", result |-> ""]

\* A create that falls back on the first plugin it knows.
instantiatePlugin_Fallback(cls, solvers, name) ==
  [solvers |-> solvers, error |-> "none", msg |-> "", made |-> TRUE]

\* create by name (the constructor Linsol(name, solver, sp, opts) for the
\* class Linsol): the factory of the plugin solver is called; a name that
\* is not in the map is an error that names it.
instantiatePlugin(cls, solvers, name) ==
  IF name \in DOMAIN solvers
    THEN [solvers |-> solvers, error |-> "none", msg |-> "", made |-> TRUE]
    ELSE [solvers |-> solvers, error |-> "ConfigurationError",
          msg |-> "Plugin '" \o name \o "' is not found.", made |-> FALSE]

NoPlugins == [cls \in Classes |-> <<>>]

NoPluginCall == [op |-> "none", cls |-> "Qpsol", name |-> "", error |-> "none",
                 msg |-> "", result |-> FALSE,
                 pre |-> [solvers_ |-> NoPlugins, made |-> [cls \in Classes |-> 0]]]

\* The matrices and right-hand sides of the linear systems: 2 by 2 and
\* diagonal, given by their diagonal.
Matrices == [1..2 -> {1, 2}]

Vectors == [1..2 -> {2, 4}]

NoFactor == [i \in 1..2 |-> 0]

NoLinsol == [life |-> "none", solver |-> "", factorized |-> FALSE, factor |-> NoFactor,
             nfact |-> 0, nsolve |-> 0, op |-> "none", x |-> NoFactor,
             error |-> "none", msg |-> "",
             pre |-> [factorized |-> FALSE, nfact |-> 0, nsolve |-> 0]]

\* A static flag in the place of the member called_once.
SetCalledOnce_Static(f, m) == [o \in DOMAIN f |-> [f[o] EXCEPT !.called_once = TRUE]]

\* eval, lines 214 and 253: m.called_once = true, on the memory eval is
\* given.
SetCalledOnce(f, m) == [f EXCEPT ![m].called_once = TRUE]

\* The state a call on m finds.
Pre(m) == [mem |-> mem[m], obj |-> obj[m], hist |-> hist[m]]

\* m.qp is deleted although its object has been deleted before.
DeletesAgain(m) == mem[m].qp # "null" /\ obj[m].deletes >= 1

(***************************************************************************)
(* The initial state: an initialised interface and no memory object yet.   *)
(***************************************************************************)
Init ==
  /\ iface \in Interfaces
  /\ mem = [m \in Mems |-> [life |-> "unborn", called_once |-> FALSE, qp |-> "null"]]
  /\ obj = [m \in Mems |-> NoObject]
  /\ hist = [m \in Mems |-> [initOk |-> FALSE, touched |-> FALSE,
                             succeeded |-> FALSE, doubleFree |-> FALSE]]
  /\ last = [op |-> "none", m |-> 1, pre |-> Pre(1), calls |-> <<>>,
             want |-> NoRes, w |-> <<>>, lam |-> NoLam,
             nWSR |-> 0, cputime_ptr |-> <<>>,
             error |-> "none", msg |-> "", res |-> NoRes, arg |-> NoArg,
             prob |-> "none", freed |-> NoObject]
  /\ mapped = <<>>
  /\ aborted = FALSE
  /\ solvers_ = NoPlugins
  /\ made = [cls \in Classes |-> 0]
  /\ pcall = NoPluginCall
  /\ linsol = NoLinsol

\* QpoasesMemory::QpoasesMemory: qp is null; called_once is not initialised.
Construct(m) ==
  /\ ~aborted
  /\ iface.state = "initialised"
  /\ mem[m].life = "unborn"
  /\ \E b \in BOOLEAN :
       mem' = [mem EXCEPT ![m] = [life |-> "alive", called_once |-> b, qp |-> "null"]]
  /\ last' = [op |-> "QpoasesMemory", m |-> m, pre |-> Pre(m), calls |-> <<>>,
              want |-> NoRes, w |-> <<>>, lam |-> NoLam,
              nWSR |-> 0, cputime_ptr |-> <<>>,
              error |-> "none", msg |-> "", res |-> NoRes, arg |-> NoArg,
              prob |-> "none", freed |-> NoObject]
  /\ UNCHANGED <<iface, obj, hist, mapped, aborted, plugin_vars>>

(***************************************************************************)
(* QpoasesInterface::init_memory(m).  Deleting an object a second time is  *)
(* undefined: the call goes on as if nothing had happened (survives), or   *)
(* the runtime ends the process at the delete of line 169.                 *)
(***************************************************************************)
InitMemory(m, alloc_ok, survives) ==
  /\ ~aborted
  /\ mem[m].life = "alive"
  /\ survives \/ DeletesAgain(m)
  /\ IF survives
       THEN LET r == init_memory(mem[m], obj[m], iface, alloc_ok)
            IN /\ mem' = [mem EXCEPT ![m] = r.mem]
               /\ obj' = [obj EXCEPT ![m] = r.obj]
               /\ hist' = [hist EXCEPT ![m] =
                             [initOk |-> r.error = "none", touched |-> FALSE,
                              succeeded |-> FALSE,
                              doubleFree |-> hist[m].doubleFree \/ DeletesAgain(m)]]
               /\ last' = [op |-> "init_memory", m |-> m, pre |-> Pre(m),
                           calls |-> <<>>, want |-> NoRes, w |-> <<>>, lam |-> NoLam,
                           nWSR |-> 0, cputime_ptr |-> <<>>, error |-> r.error, msg |-> "",
                           res |-> NoRes, arg |-> NoArg, prob |-> "none",
                           freed |-> r.freed]
               /\ UNCHANGED aborted
       ELSE /\ mem' = [mem EXCEPT ![m].called_once = FALSE]
            /\ obj' = [obj EXCEPT ![m] = delete(@)]
            /\ hist' = [hist EXCEPT ![m] =
                          [initOk |-> FALSE, touched |-> FALSE,
                           succeeded |-> FALSE, doubleFree |-> TRUE]]
            /\ last' = [op |-> "init_memory", m |-> m, pre |-> Pre(m),
                        calls |-> <<>>, want |-> NoRes, w |-> <<>>, lam |-> NoLam,
                        nWSR |-> 0, cputime_ptr |-> <<>>, error |-> "abort", msg |-> "",
                        res |-> NoRes, arg |-> NoArg, prob |-> "none",
                        freed |-> delete(obj[m])]
            /\ aborted' = TRUE
  /\ UNCHANGED <<iface, mapped, plugin_vars>>

(***************************************************************************)
(* QpoasesInterface::eval on the memory m, with the bounds arg, the output *)
(* pointers res and the numerical data prob.  A caller solves on a memory  *)
(* whose last init_memory returned.                                        *)
(***************************************************************************)
Eval(m, arg, res, prob) ==
  /\ ~aborted
  /\ mem[m].life = "alive"
  /\ hist[m].initOk
  /\ IF InputsRejected(iface, arg)
       THEN /\ last' = [op |-> "eval", m |-> m, pre |-> Pre(m), calls |-> <<>>,
                        want |-> res, w |-> <<>>, lam |-> NoLam,
                        nWSR |-> 0, cputime_ptr |-> <<>>,
                        error |-> "checkInputs", msg |-> "", res |-> res, arg |-> arg,
                        prob |-> prob, freed |-> NoObject]
            /\ UNCHANGED <<iface, mem, obj, hist>>
       ELSE LET r == RunCalls(evalCalls(mem[m].called_once, iface.nc_), obj[m], prob)
                flag == r.calls[Len(r.calls)].ret
            IN /\ mem' = SetCalledOnce(mem, m)
               /\ obj' = [obj EXCEPT ![m] = r.obj]
               /\ hist' = [hist EXCEPT ![m].touched = TRUE,
                                       ![m].succeeded = @ \/ ~Failed(flag)]
               /\ iface' = BackendWrites(iface, Used(Budget(iface), prob))
               /\ last' = [op |-> "eval", m |-> m, pre |-> Pre(m), calls |-> r.calls,
                           want |-> res,
                           w |-> Carve(iface, ~Failed(flag) /\ WantsDual(res)),
                           lam |-> IF ~Failed(flag) /\ WantsDual(res)
                                     THEN Multipliers(iface, res, r.obj) ELSE NoLam,
                           nWSR |-> Budget(iface).nWSR,
                           cputime_ptr |-> Budget(iface).cputime_ptr,
                           error |-> IF Failed(flag) THEN "CasadiException" ELSE "none",
                           msg |-> IF Failed(flag)
                                     THEN "qpOASES failed: " \o getErrorMessage(flag)
                                     ELSE "",
                           res |-> IF Failed(flag) THEN res ELSE WriteOutputs(res, r.obj),
                           arg |-> arg, prob |-> prob, freed |-> NoObject]
  /\ UNCHANGED <<mapped, aborted, plugin_vars>>

\* QpoasesMemory::~QpoasesMemory; a second delete as in init_memory.
Destroy(m, survives) ==
  /\ ~aborted
  /\ mem[m].life = "alive"
  /\ survives \/ DeletesAgain(m)
  /\ mem' = [mem EXCEPT ![m].life = "dead"]
  /\ obj' = [obj EXCEPT ![m] = IF mem[m].qp # "null" THEN delete(@) ELSE @]
  /\ hist' = [hist EXCEPT ![m].initOk = FALSE,
                          ![m].doubleFree = @ \/ DeletesAgain(m)]
  /\ last' = [op |-> "~QpoasesMemory", m |-> m, pre |-> Pre(m), calls |-> <<>>,
              want |-> NoRes, w |-> <<>>, lam |-> NoLam,
              nWSR |-> 0, cputime_ptr |-> <<>>,
              error |-> IF survives THEN "none" ELSE "abort", msg |-> "",
              res |-> NoRes, arg |-> NoArg, prob |-> "none",
              freed |-> IF mem[m].qp # "null" THEN delete(obj[m]) ELSE NoObject]
  /\ aborted' = ~survives
  /\ UNCHANGED <<iface, mapped, plugin_vars>>

\* The numerical data that go with the bounds arg: bounds out of order
\* leave no feasible point.
Data(self, arg) == IF checkInputs(self, arg) THEN Problems ELSE {"infeasible"}

Next ==
  \E m \in Solo :
    \/ Construct(m)
    \/ \E alloc_ok \in BOOLEAN, survives \in BOOLEAN : InitMemory(m, alloc_ok, survives)
    \/ \E arg \in Args(iface), res \in ResArgs :
         \E prob \in Data(iface, arg) : Eval(m, arg, res, prob)
    \/ \E survives \in BOOLEAN : Destroy(m, survives)

Spec == Init /\ [][Next]_vars

(***************************************************************************)
(* The interface from its construction on: init, then calls on one memory  *)
(* with bounds in order and every output or none asked for.                *)
(***************************************************************************)
InitSetup ==
  /\ iface \in Setups
  /\ mem = [m \in Mems |-> [life |-> "unborn", called_once |-> FALSE, qp |-> "null"]]
  /\ obj = [m \in Mems |-> NoObject]
  /\ hist = [m \in Mems |-> [initOk |-> FALSE, touched |-> FALSE,
                             succeeded |-> FALSE, doubleFree |-> FALSE]]
  /\ last = [op |-> "none", m |-> 1, pre |-> Pre(1), calls |-> <<>>,
             want |-> NoRes, w |-> <<>>, lam |-> NoLam,
             nWSR |-> 0, cputime_ptr |-> <<>>,
             error |-> "none", msg |-> "", res |-> NoRes, arg |-> NoArg,
             prob |-> "none", freed |-> NoObject]
  /\ mapped = <<>>
  /\ aborted = FALSE
  /\ solvers_ = NoPlugins
  /\ made = [cls \in Classes |-> 0]
  /\ pcall = NoPluginCall
  /\ linsol = NoLinsol

\* QpoasesInterface::init on the constructed interface.
InterfaceInit ==
  /\ iface.state = "constructed"
  /\ iface' = init(iface)
  /\ last' = [op |-> "init", m |-> 1, pre |-> Pre(1), calls |-> <<>>,
              want |-> NoRes, w |-> <<>>, lam |-> NoLam,
              nWSR |-> 0, cputime_ptr |-> <<>>,
              error |-> IF init(iface).state = "failed" THEN "casadi_assert" ELSE "none",
              msg |-> "", res |-> NoRes, arg |-> NoArg,
              prob |-> "none", freed |-> NoObject]
  /\ UNCHANGED <<mem, obj, hist, mapped, aborted, plugin_vars>>

ZeroArg(self) ==
  [lbx |-> Raised(self.n_, 0), ubx |-> Raised(self.n_, 0),
   lba |-> Raised(self.nc_, 0), uba |-> Raised(self.nc_, 0)]

AllRes == [s \in Slots |-> "unset"]

NextSetup ==
  \/ InterfaceInit
  \/ \E m \in Solo :
       \/ Construct(m)
       \/ InitMemory(m, TRUE, TRUE)
       \/ \E res \in ResArgs, prob \in {"solvable", "budget"} :
            Eval(m, ZeroArg(iface), res, prob)
       \/ Destroy(m, TRUE)

SpecSetup == InitSetup /\ [][NextSetup]_vars

(***************************************************************************)
(* Two memories of one interface, with calls on either in any order.       *)
(***************************************************************************)
NextPair ==
  \E m \in Mems :
    \/ Construct(m)
    \/ InitMemory(m, TRUE, TRUE)
    \/ \E prob \in {"solvable", "infeasible"} : Eval(m, ZeroArg(iface), AllRes, prob)
    \/ Destroy(m, TRUE)

SpecPair == Init /\ [][NextPair]_vars

(***************************************************************************)
(* getErrorMessage on its own: a static function of the flag.              *)
(***************************************************************************)
Flags == (0 - MaxUnknown) .. (Len(ReturnValues) - 1 + MaxUnknown)

GetErrorMessage(flag) ==
  /\ mapped' = <<[flag |-> flag, text |-> getErrorMessage(flag)]>>
  /\ UNCHANGED <<iface, mem, obj, hist, last, aborted, plugin_vars>>

NextMapper == \E flag \in Flags : GetErrorMessage(flag)

SpecMapper == Init /\ [][NextMapper]_vars

(***************************************************************************)
(* The option conversions on their own: static functions.  The options of  *)
(* the backend (members printLevel, initialStatusBounds and, for the       *)
(* BooleanType members, enableRamping) are converted to option values as   *)
(* in the constructor and back as in init_memory, and the other way round. *)
(***************************************************************************)
OptionsStructs ==
  [printLevel : PrintLevel, initialStatusBounds : SubjectToStatus,
   enableRamping : BooleanType]

OptionValues ==
  [printLevel : {PrintLevel_to_string(v) : v \in PrintLevel} \cup {"debug"},
   initialStatusBounds :
     ({SubjectToStatus_to_string(v) : v \in SubjectToStatus} \ {"not_implemented"})
       \cup Allowed.initialStatusBounds,
   enableRamping : BOOLEAN]

\* The constructor, lines 62-130: the members of ops become option values;
\* init_memory, lines 175-209, converts them back.  A casadi_error ends
\* the round trip: the conversions take "not_implemented" to itself.
ToOptionValues(o) ==
  LET value == [printLevel |-> PrintLevel_to_string(o.printLevel),
                initialStatusBounds |->
                  SubjectToStatus_to_string(o.initialStatusBounds),
                enableRamping |-> BooleanType_to_bool(o.enableRamping)]
  IN /\ mapped' = <<[fn |-> "to_option", arg |-> o, value |-> value,
                     back |-> [printLevel |-> string_to_PrintLevel(value.printLevel),
                               initialStatusBounds |->
                                 string_to_SubjectToStatus(value.initialStatusBounds),
                               enableRamping |->
                                 bool_to_BooleanType(value.enableRamping)]]>>
     /\ UNCHANGED <<iface, mem, obj, hist, last, aborted, plugin_vars>>

\* init_memory, lines 175-209: option values become members of ops; the
\* conversions of the constructor take them back.
FromOptionValues(v) ==
  LET value == [printLevel |-> string_to_PrintLevel(v.printLevel),
                initialStatusBounds |->
                  string_to_SubjectToStatus(v.initialStatusBounds),
                enableRamping |-> bool_to_BooleanType(v.enableRamping)]
  IN /\ mapped' = <<[fn |-> "from_option", arg |-> v, value |-> value,
                     back |-> [printLevel |-> PrintLevel_to_string(value.printLevel),
                               initialStatusBounds |->
                                 SubjectToStatus_to_string(value.initialStatusBounds),
                               enableRamping |->
                                 BooleanType_to_bool(value.enableRamping)]]>>
     /\ UNCHANGED <<iface, mem, obj, hist, last, aborted, plugin_vars>>

NextOptions ==
  \/ \E o \in OptionsStructs : ToOptionValues(o)
  \/ \E v \in OptionValues : FromOptionValues(v)

\* No conversion made yet; the interface plays no part.
InitOptions == Init /\ iface.nc_ = 1 /\ iface.inputs_check_

SpecOptions == InitOptions /\ [][NextOptions]_vars

(***************************************************************************)
(* The plugin registry on its own.                                         *)
(***************************************************************************)
PrePlugins == [solvers_ |-> solvers_, made |-> made]

qp_vars == <<iface, mem, obj, hist, last, mapped, aborted>>

\* registerPlugin(regfcn) of the class cls.
RegisterPlugin(cls, regfcn) ==
  LET r == registerPlugin(solvers_[cls], regfcn)
  IN /\ solvers_' = [solvers_ EXCEPT ![cls] = r.solvers]
     /\ pcall' = [op |-> "registerPlugin", cls |-> cls, name |-> regfcn.plugin.name,
                  error |-> r.error, msg |-> "", result |-> FALSE, pre |-> PrePlugins]
     /\ UNCHANGED <<qp_vars, made, linsol>>

\* casadi_load_qpsol_qpoases, lines 45-48.
casadi_load_qpsol_qpoases ==
  LET r == registerPlugin(solvers_["Qpsol"], casadi_register_qpsol_qpoases)
  IN /\ solvers_' = [solvers_ EXCEPT !["Qpsol"] = r.solvers]
     /\ pcall' = [op |-> "casadi_load_qpsol_qpoases", cls |-> "Qpsol",
                  name |-> casadi_register_qpsol_qpoases.plugin.name,
                  error |-> r.error, msg |-> "", result |-> FALSE, pre |-> PrePlugins]
     /\ UNCHANGED <<qp_vars, made, linsol>>

LoadPlugin(cls, name) ==
  LET r == load_plugin(cls, solvers_[cls], name)
  IN /\ solvers_' = [solvers_ EXCEPT ![cls] = r.solvers]
     /\ pcall' = [op |-> "load_plugin", cls |-> cls, name |-> name,
                  error |-> r.error, msg |-> "", result |-> FALSE, pre |-> PrePlugins]
     /\ UNCHANGED <<qp_vars, made, linsol>>

HasPlugin(cls, name) ==
  LET r == has_plugin(cls, solvers_[cls], name)
  IN /\ solvers_' = [solvers_ EXCEPT ![cls] = r.solvers]
     /\ pcall' = [op |-> "has_plugin", cls |-> cls, name |-> name,
                  error |-> "none", msg |-> "", result |-> r.result, pre |-> PrePlugins]
     /\ UNCHANGED <<qp_vars, made, linsol>>

Doc(cls, name) ==
  LET r == doc(cls, solvers_[cls], name)
  IN /\ solvers_' = [solvers_ EXCEPT ![cls] = r.solvers]
     /\ pcall' = [op |-> "doc", cls |-> cls, name |-> name,
                  error |-> r.error, msg |-> r.result, result |-> FALSE, pre |-> PrePlugins]
     /\ UNCHANGED <<qp_vars, made, linsol>>

\* An instance of cls is created by the name of its plugin.
Create(cls, name) ==
  LET r == instantiatePlugin(cls, solvers_[cls], name)
  IN /\ r.made => made[cls] < MaxMade
     /\ solvers_' = [solvers_ EXCEPT ![cls] = r.solvers]
     /\ made' = [made EXCEPT ![cls] = IF r.made THEN @ + 1 ELSE @]
     /\ pcall' = [op |-> "create", cls |-> cls, name |-> name,
                  error |-> r.error, msg |-> r.msg, result |-> r.made, pre |-> PrePlugins]
     /\ UNCHANGED <<qp_vars, linsol>>

NextRegistry ==
  \/ casadi_load_qpsol_qpoases
  \/ \E cls \in Classes :
       \/ \E regfcn \in RegFcns(cls) : RegisterPlugin(cls, regfcn)
       \/ \E name \in Names :
            \/ LoadPlugin(cls, name)
            \/ HasPlugin(cls, name)
            \/ Doc(cls, name)
            \/ Create(cls, name)

\* No plugin registered; the interface plays no part.
InitRegistry == Init /\ iface.nc_ = 1 /\ iface.inputs_check_

SpecRegistry == InitRegistry /\ [][NextRegistry]_vars

(***************************************************************************)
(* One linear solver, created by name from a registry that holds the       *)
(* linear solver plugins.                                                  *)
(***************************************************************************)
LinsolPlugins ==
  [NoPlugins EXCEPT !["Linsol"] =
     [n \in {"csparse", "lapacklu"} |-> casadi_register_linsol(n).plugin]]

InitLinsol ==
  /\ iface \in {init(QpoasesInterface(1, 1, TRUE, NoOptions))}
  /\ mem = [m \in Mems |-> [life |-> "unborn", called_once |-> FALSE, qp |-> "null"]]
  /\ obj = [m \in Mems |-> NoObject]
  /\ hist = [m \in Mems |-> [initOk |-> FALSE, touched |-> FALSE,
                             succeeded |-> FALSE, doubleFree |-> FALSE]]
  /\ last = [op |-> "none", m |-> 1, pre |-> Pre(1), calls |-> <<>>,
             want |-> NoRes, w |-> <<>>, lam |-> NoLam,
             nWSR |-> 0, cputime_ptr |-> <<>>,
             error |-> "none", msg |-> "", res |-> NoRes, arg |-> NoArg,
             prob |-> "none", freed |-> NoObject]
  /\ mapped = <<>>
  /\ aborted = FALSE
  /\ solvers_ = LinsolPlugins
  /\ made = [cls \in Classes |-> 0]
  /\ pcall = NoPluginCall
  /\ linsol = NoLinsol

PreLinsol == [factorized |-> linsol.factorized, nfact |-> linsol.nfact,
              nsolve |-> linsol.nsolve]

\* A factorize that keeps no record of having run.
factorize_Forgets(L, A) ==
  [L EXCEPT !.factor = A, !.nfact = @ + 1, !.error = "none"]

\* Linsol::factorize(A): the backend factorizes A and keeps the factor.
factorize(L, A) ==
  [L EXCEPT !.factorized = TRUE, !.factor = A, !.nfact = @ + 1, !.error = "none"]

\* A solve that factorizes anew before every solve.
solve_Refactorizes(L, b) ==
  IF ~L.factorized
    THEN [L EXCEPT !.x = b, !.error = "StructuralError"]
    ELSE [L EXCEPT !.x = [i \in 1..2 |-> b[i] \div L.factor[i]],
                   !.nfact = @ + 1, !.nsolve = @ + 1, !.error = "none"]

\* A solve that hands the system to the backend whatever has been done.
solve_Unchecked(L, b) ==
  [L EXCEPT !.x = IF L.factorized THEN [i \in 1..2 |-> b[i] \div L.factor[i]] ELSE b,
            !.nsolve = @ + 1, !.error = "none"]

\* Linsol::solve(x, nrhs, tr): x holds the right-hand side and is
\* overwritten with the solution, by the backend and from the factor
\* kept; without a factorization the call is an error.
solve(L, b) ==
  IF ~L.factorized
    THEN [L EXCEPT !.x = b, !.error = "StructuralError"]
    ELSE [L EXCEPT !.x = [i \in 1..2 |-> b[i] \div L.factor[i]],
                   !.nsolve = @ + 1, !.error = "none"]

\* Linsol::Linsol(name, solver, sp, opts)
LinsolNew(solver) ==
  LET r == instantiatePlugin("Linsol", solvers_["Linsol"], solver)
  IN /\ linsol.life = "none"
     /\ linsol' = IF r.made
                    THEN [NoLinsol EXCEPT !.life = "alive", !.solver = solver,
                                          !.op = "Linsol", !.pre = PreLinsol]
                    ELSE [linsol EXCEPT !.op = "Linsol", !.error = r.error,
                                        !.msg = r.msg, !.pre = PreLinsol]
     /\ UNCHANGED <<qp_vars, solvers_, made, pcall>>

Factorize(A) ==
  /\ linsol.life = "alive"
  /\ linsol.nfact < MaxFact
  /\ linsol' = [factorize(linsol, A) EXCEPT !.op = "factorize", !.pre = PreLinsol]
  /\ UNCHANGED <<qp_vars, solvers_, made, pcall>>

LinsolSolve(b) ==
  /\ linsol.life = "alive"
  /\ linsol.nsolve < MaxSolve
  /\ linsol' = [solve(linsol, b) EXCEPT !.op = "solve", !.pre = PreLinsol]
  /\ UNCHANGED <<qp_vars, solvers_, made, pcall>>

\* The instance is released.
LinsolDelete ==
  /\ linsol.life = "alive"
  /\ linsol' = [NoLinsol EXCEPT !.op = "~Linsol", !.pre = PreLinsol]
  /\ UNCHANGED <<qp_vars, solvers_, made, pcall>>

NextLinsol ==
  \/ \E solver \in Names : LinsolNew(solver)
  \/ \E A \in Matrices : Factorize(A)
  \/ \E b \in Vectors : LinsolSolve(b)
  \/ LinsolDelete

SpecLinsol == InitLinsol /\ [][NextLinsol]_vars

(***************************************************************************)
(* What the properties below read of the most recent call.                 *)
(***************************************************************************)
\* The most recent call is a solve that got to the backend.
Solved_ == last.op = "eval" /\ last.calls # <<>>

\* The backend functions it called, in order.
LastFns == [i \in 1..Len(last.calls) |-> last.calls[i].fn]

\* The flag it tested at line 264.
LastFlag == last.calls[Len(last.calls)].ret

\* It was the first solve to get to the backend since the last init_memory.
FirstSolve == ~last.pre.hist.touched

\* Some lower bound of its inputs is above its upper bound.
BadBounds ==
  \/ \E i \in DOMAIN last.arg.lbx : last.arg.lbx[i] > last.arg.ubx[i]
  \/ \E j \in DOMAIN last.arg.lba : last.arg.lba[j] > last.arg.uba[j]

\* The flags of a numerical failure: infeasible, unbounded, indefinite.
NumericalFailures ==
  {RET_INIT_FAILED_INFEASIBILITY, RET_INIT_FAILED_UNBOUNDEDNESS,
   RET_INIT_FAILED_CHOLESKY, RET_HOTSTART_STOPPED_INFEASIBILITY,
   RET_HOTSTART_STOPPED_UNBOUNDEDNESS, RET_HESSIAN_INDEFINITE}

\* sub occurs in the text s.
Contains(s, sub) ==
  \E i \in 1..(Len(s) - Len(sub) + 1) : SubSeq(s, i, i + Len(sub) - 1) = sub

(***************************************************************************)
(* C1.  As claimed: with no reset in between, the first solve of an        *)
(* instance calls init, and every later solve calls hotstart and makes no  *)
(* cold initialisation, for nc = 0 as for nc > 0.                          *)
(***************************************************************************)
C1_AsClaimed ==
  Solved_ => IF FirstSolve THEN LastFns = <<"init">> ELSE LastFns = <<"hotstart">>

(***************************************************************************)
(* C1, amended.  With no reset in between, the first solve that gets to    *)
(* the backend calls init; every later one calls hotstart and nothing else *)
(* when nc > 0, and calls reset and then init, and no hotstart, when       *)
(* nc = 0.                                                                 *)
(***************************************************************************)
C1_ColdThenWarm ==
  Solved_ =>
    IF FirstSolve
      THEN LastFns = <<"init">>
      ELSE IF iface.nc_ > 0
             THEN LastFns = <<"hotstart">>
             ELSE LastFns = <<"reset", "init">>

C1_Witness ==
  /\ Solved_ /\ ~FirstSolve
  /\ iface.nc_ > 0
  /\ LastFns = <<"hotstart">>

(***************************************************************************)
(* C2.  The tag called_once of an initialised memory is set only if a      *)
(* solve has completed without an exception since the last init_memory.    *)
(***************************************************************************)
C2_PrimedOnlyAfterSuccess ==
  \A m \in Mems :
    (mem[m].life = "alive" /\ hist[m].initOk /\ mem[m].called_once)
      => hist[m].succeeded

(***************************************************************************)
(* C3.  An init_memory that returns leaves called_once false and qp at a   *)
(* new object, on which no backend function has been called, and has       *)
(* deleted the object qp pointed to; one that throws leaves called_once    *)
(* false as well.  The first solve after it calls init and no hotstart.    *)
(***************************************************************************)
C3_ResetMakesVirgin ==
  /\ last.op = "init_memory" =>
       /\ ~mem[last.m].called_once
       /\ last.error = "none" =>
            /\ mem[last.m].qp = "object"
            /\ obj[last.m].status = "QPS_NOTINITIALISED"
            /\ obj[last.m].sol = "none"
            /\ obj[last.m].deletes = 0
            /\ last.freed = IF last.pre.mem.qp # "null"
                              THEN delete(last.pre.obj)
                              ELSE NoObject
  /\ (Solved_ /\ FirstSolve) =>
       /\ LastFns = <<"init">>
       /\ last.pre.obj.status = "QPS_NOTINITIALISED"

\* A memory that has solved is reset.
C3_Witness ==
  /\ last.op = "init_memory" /\ last.error = "none"
  /\ last.pre.mem.called_once /\ last.pre.hist.touched
  /\ last.pre.obj.status = "QPS_SOLVED"

(***************************************************************************)
(* C4.  No qpOASES object is deleted twice, and the object of a destroyed  *)
(* memory has been deleted.                                                *)
(***************************************************************************)
C4_DeletedExactlyOnce ==
  \A m \in Mems :
    /\ ~hist[m].doubleFree
    /\ obj[m].deletes <= 1
    /\ (mem[m].life = "dead" /\ mem[m].qp # "null") => obj[m].deletes = 1

(***************************************************************************)
(* C5.  A solve whose flag is neither SUCCESSFUL_RETURN nor                *)
(* RET_MAX_NWSR_REACHED ends in an exception and has written none of cost, *)
(* x, lam_x and lam_a.                                                     *)
(***************************************************************************)
C5_HardFailureWritesNothing ==
  (Solved_ /\ LastFlag \notin {SUCCESSFUL_RETURN, RET_MAX_NWSR_REACHED}) =>
    /\ last.error = "CasadiException"
    /\ \A s \in Slots : last.res[s] \in {"null", "unset"}

C5_Witness ==
  /\ Solved_ /\ LastFlag = RET_HOTSTART_STOPPED_UNBOUNDEDNESS
  /\ \A s \in Slots : last.res[s] = "unset"

(***************************************************************************)
(* C6.  A solve whose flag is RET_MAX_NWSR_REACHED, from init or from      *)
(* hotstart, raises nothing and writes every output it was given a buffer  *)
(* for, from the iterate the backend holds, as a successful solve writes   *)
(* them from the optimum.                                                  *)
(***************************************************************************)
C6_BudgetReturnsIterate ==
  /\ (Solved_ /\ LastFlag = RET_MAX_NWSR_REACHED) =>
       /\ last.error = "none"
       /\ \A s \in {"cost", "x"} : last.res[s] \in {"null", "iterate"}
       /\ \A s \in {"lam_x", "lam_a"} : last.res[s] \in {"null", "-iterate"}
  /\ (Solved_ /\ LastFlag = SUCCESSFUL_RETURN) =>
       /\ last.error = "none"
       /\ \A s \in {"cost", "x"} : last.res[s] \in {"null", "optimum"}
       /\ \A s \in {"lam_x", "lam_a"} : last.res[s] \in {"null", "-optimum"}

C6_Witness ==
  /\ Solved_ /\ LastFlag = RET_MAX_NWSR_REACHED
  /\ LastFns = <<"hotstart">>
  /\ last.res = [s \in Slots |-> IF s \in {"cost", "x"} THEN "iterate" ELSE "-iterate"]

(***************************************************************************)
(* C7.  As claimed: a numerical failure is not raised as an error but      *)
(* returned, and what a solve that used up its budget returns differs from *)
(* what a converged solve returns.                                         *)
(***************************************************************************)
C7_AsClaimed ==
  /\ (Solved_ /\ LastFlag \in NumericalFailures) => last.error = "none"
  /\ (Solved_ /\ LastFlag = RET_MAX_NWSR_REACHED) =>
       <<last.error, last.msg>> # <<"none", "">>

(***************************************************************************)
(* C7, amended.  A numerical failure is raised as an exception whose text  *)
(* is "qpOASES failed: " and the message of the flag.  A solve that used   *)
(* up its budget raises nothing: it returns as a converged solve does,     *)
(* with no status for the caller to inspect.                               *)
(***************************************************************************)
C7_FailureRaisedBudgetSilent ==
  /\ (Solved_ /\ LastFlag \in NumericalFailures) =>
       /\ last.error = "CasadiException"
       /\ \E i \in 1..Len(ReturnValues) :
            /\ LastFlag = i - 1
            /\ last.msg = "qpOASES failed: " \o ReturnValues[i].text
  /\ (Solved_ /\ LastFlag \in {SUCCESSFUL_RETURN, RET_MAX_NWSR_REACHED}) =>
       <<last.error, last.msg>> = <<"none", "">>

C7_Witness ==
  /\ Solved_ /\ LastFlag = RET_INIT_FAILED_INFEASIBILITY
  /\ last.msg = "qpOASES failed: Initial QP could not be solved due to infeasibility!"

(***************************************************************************)
(* C8.  A solve with data the backend solves from scratch succeeds when    *)
(* the solve before it on the same memory, with no init_memory in between, *)
(* ended in a numerical failure.                                           *)
(***************************************************************************)
C8_UsableAfterFailure ==
  (/\ Solved_ /\ ~FirstSolve
   /\ last.prob = "solvable"
   /\ last.pre.obj.status = "QPS_PERFORMINGHOMOTOPY")
    => last.error = "none"

(***************************************************************************)
(* C9.  As claimed: on every interface, a solve with a lower bound above   *)
(* its upper bound is refused with no backend call, and leaves the memory  *)
(* and its object as they were.                                            *)
(***************************************************************************)
C9_AsClaimed ==
  (last.op = "eval" /\ BadBounds) =>
    /\ last.error = "checkInputs"
    /\ last.calls = <<>>
    /\ mem[last.m] = last.pre.mem
    /\ obj[last.m] = last.pre.obj

(***************************************************************************)
(* C9, amended.  The same, on every interface whose option inputs_check_   *)
(* is set.                                                                 *)
(***************************************************************************)
C9_RefusedWhenChecked ==
  (last.op = "eval" /\ BadBounds /\ iface.inputs_check_) =>
    /\ last.error = "checkInputs"
    /\ last.calls = <<>>
    /\ mem[last.m] = last.pre.mem
    /\ obj[last.m] = last.pre.obj

\* A memory that has solved is handed a constraint bound out of order.
C9_Witness ==
  /\ last.op = "eval" /\ iface.inputs_check_
  /\ \E j \in DOMAIN last.arg.lba : last.arg.lba[j] > last.arg.uba[j]
  /\ last.pre.mem.called_once
  /\ last.error = "checkInputs"

(***************************************************************************)
(* C10.  getErrorMessage returns a text for every flag and changes         *)
(* nothing; for a flag its switch has no case for, the text holds the      *)
(* decimal digits of the flag.                                             *)
(***************************************************************************)
C10_MapperTotal ==
  /\ last.op = "none"
  /\ \A m \in Mems : mem[m].life = "unborn" /\ obj[m] = NoObject
  /\ mapped # <<>> =>
       /\ Len(mapped[1].text) > 0
       /\ mapped[1].flag \notin KnownFlags =>
            /\ Contains(mapped[1].text, IntToString(mapped[1].flag))
            /\ mapped[1].flag = 0 - 2 => Contains(mapped[1].text, " -2.")
            /\ mapped[1].flag = Len(ReturnValues) + 1 =>
                 Contains(mapped[1].text,
                          " " \o IntToString(Len(ReturnValues) + 1) \o ".")

C10_Witness ==
  /\ mapped # <<>>
  /\ mapped[1].flag = 0 - 1
  /\ mapped[1].text = "Unknown error flag: -1. Consult qpOASES documentation."

(***************************************************************************)
(* C11.  After a solve that returns normally, an output slot the caller    *)
(* passed as null has not been written: the cost, x, lam_x and lam_a are   *)
(* each written only through their own non-null pointer, also when one     *)
(* only of lam_x and lam_a is null.                                        *)
(***************************************************************************)
C11_NullSlotNotWritten ==
  (last.op = "eval" /\ last.error = "none") =>
    \A s \in Slots :
      /\ last.want[s] = "null" => last.res[s] = "null"
      /\ last.want[s] # "null" => last.res[s] \notin {"null", "unset"}

\* A solve that is asked for lam_a and not for lam_x.
C11_Witness ==
  /\ last.op = "eval" /\ last.error = "none"
  /\ last.want["lam_x"] = "null" /\ last.want["lam_a"] # "null"
  /\ last.res["lam_x"] = "null" /\ last.res["lam_a"] = "-optimum"

(***************************************************************************)
(* C12.  The workspace an interface asks for is n*n + n*nc + 4n + 3nc      *)
(* doubles, whatever its options; it is asked for in init and in no other  *)
(* call: before init and after a failed init nothing has been asked for,   *)
(* and no solve and no init_memory changes the size.                       *)
(***************************************************************************)
C12_WorkspaceSizedOnce ==
  IF iface.state = "initialised"
    THEN iface.sz_w = iface.n_ * iface.n_ + iface.n_ * iface.nc_
                        + 4 * iface.n_ + 3 * iface.nc_
    ELSE iface.sz_w = 0

\* A second solve on an interface of 2 variables and 1 constraint with a
\* budget set.
C12_Witness ==
  /\ last.op = "eval" /\ last.pre.mem.called_once
  /\ iface.n_ = 2 /\ iface.nc_ = 1 /\ hasSetOption(iface, "nWSR")
  /\ iface.sz_w = 17

(***************************************************************************)
(* C13.  A solve of a linear solver that has never been factorized is a    *)
(* StructuralError and makes no backend solve, whatever the plugin; a      *)
(* solve after a factorize is carried out by the backend.                  *)
(***************************************************************************)
C13_SolveNeedsFactorize ==
  linsol.op = "solve" =>
    IF linsol.pre.factorized
      THEN linsol.error = "none" /\ linsol.nsolve = linsol.pre.nsolve + 1
      ELSE linsol.error = "StructuralError" /\ linsol.nsolve = linsol.pre.nsolve

C13_Witness ==
  /\ linsol.op = "solve" /\ linsol.solver = "lapacklu"
  /\ ~linsol.pre.factorized /\ linsol.error = "StructuralError"

(***************************************************************************)
(* C14.  A solve of a linear solver leaves the number of factorizations    *)
(* as it finds it: after one factorize it stays 1 over any number of       *)
(* solves, and only a factorize raises it.                                 *)
(***************************************************************************)
C14_FactorReused ==
  /\ linsol.op = "solve" => linsol.nfact = linsol.pre.nfact
  /\ linsol.op = "factorize" => linsol.nfact = linsol.pre.nfact + 1
  /\ (linsol.op = "solve" /\ linsol.error = "none") =>
       \A i \in 1..2 : linsol.x[i] * linsol.factor[i] \in {2, 4}

\* The second solve after the one factorize.
C14_Witness ==
  /\ linsol.op = "solve" /\ linsol.error = "none"
  /\ linsol.nfact = 1 /\ linsol.nsolve = 2

(***************************************************************************)
(* C15.  A registration under a name that is registered is rejected and    *)
(* leaves the registry as it is; so does casadi_load_qpsol_qpoases when    *)
(* there is an entry "qpoases".                                            *)
(***************************************************************************)
C15_DuplicateRejected ==
  (/\ pcall.op \in {"registerPlugin", "casadi_load_qpsol_qpoases", "load_plugin"}
   /\ pcall.name \in DOMAIN pcall.pre.solvers_[pcall.cls]) =>
    pcall.error = "ConfigurationError" /\ solvers_ = pcall.pre.solvers_

\* casadi_load_qpsol_qpoases finds the entry of another library.
C15_Witness ==
  /\ pcall.op = "casadi_load_qpsol_qpoases"
  /\ "qpoases" \in DOMAIN pcall.pre.solvers_["Qpsol"]
  /\ solvers_["Qpsol"]["qpoases"] = Rival("qpoases").plugin
  /\ pcall.error = "ConfigurationError"

(***************************************************************************)
(* C16.  A create by a name that is not registered is a                    *)
(* ConfigurationError whose text holds the name; no instance is made and   *)
(* the registry is as before.                                              *)
(***************************************************************************)
C16_UnknownCreateFails ==
  (pcall.op = "create" /\ pcall.name \notin DOMAIN pcall.pre.solvers_[pcall.cls]) =>
    /\ pcall.error = "ConfigurationError"
    /\ Contains(pcall.msg, pcall.name)
    /\ ~pcall.result
    /\ made = pcall.pre.made
    /\ solvers_ = pcall.pre.solvers_

\* A linear solver is asked for by the name of a plugin that has a library
\* and has not been loaded.
C16_Witness ==
  /\ pcall.op = "create" /\ pcall.cls = "Linsol" /\ pcall.name = "csparse"
  /\ "lapacklu" \in DOMAIN solvers_["Linsol"]
  /\ pcall.error = "ConfigurationError"

(***************************************************************************)
(* C17.  has_plugin and doc leave the registry as they find it, for every  *)
(* name; the registry differs from what a call found only after a          *)
(* registration or a load_plugin.                                          *)
(***************************************************************************)
C17_LookupsReadOnly ==
  /\ pcall.op \in {"has_plugin", "doc", "create"} => solvers_ = pcall.pre.solvers_
  /\ solvers_ # pcall.pre.solvers_ =>
       pcall.op \in {"registerPlugin", "casadi_load_qpsol_qpoases", "load_plugin"}
  /\ pcall.op = "has_plugin" =>
       pcall.result = (pcall.name \in DOMAIN solvers_[pcall.cls])

\* has_plugin is asked for a plugin that has a library and is not loaded.
C17_Witness ==
  /\ pcall.op = "has_plugin" /\ pcall.cls = "Qpsol" /\ pcall.name = "qpoases"
  /\ ~pcall.result
  /\ solvers_["Qpsol"] = <<>>

(***************************************************************************)
(* C18.  As claimed: a call that raises an error about an option value     *)
(* has created no backend object: after it the memory holds no object      *)
(* that has not been deleted.                                              *)
(***************************************************************************)
C18_OptionErrorsBeforeObject ==
  (last.op \in {"init", "init_memory"}
     /\ last.error \in {"casadi_assert", "not_implemented"}) =>
    (mem[last.m].qp = "null" \/ obj[last.m].deletes > 0)

(***************************************************************************)
(* C19.  A solve hands the backend the budget 5*(n_ + nc_) when nWSR is    *)
(* not set and the value of nWSR when it is, and the null time pointer     *)
(* when CPUtime is not set and a pointer to its value when it is; init     *)
(* fails exactly when nWSR is set below 0 or CPUtime is set to 0 or        *)
(* below, so that nWSR = 0 is accepted.                                    *)
(***************************************************************************)
C19_DefaultBudgets ==
  /\ (last.op = "eval" /\ last.calls # <<>>) =>
       /\ last.nWSR = IF hasSetOption(iface, "nWSR") THEN option(iface, "nWSR")
                                                     ELSE 5 * (iface.n_ + iface.nc_)
       /\ last.cputime_ptr = IF hasSetOption(iface, "CPUtime")
                               THEN <<option(iface, "CPUtime")>> ELSE <<>>
  /\ last.op = "init" =>
       (last.error # "none" <=>
          \/ hasSetOption(iface, "nWSR") /\ option(iface, "nWSR") < 0
          \/ hasSetOption(iface, "CPUtime") /\ option(iface, "CPUtime") <= 0)
  /\ iface.state = "failed" => last.op = "init" /\ last.error = "casadi_assert"

\* The second solve of an interface of 2 variables and 2 constraints with
\* nWSR = 0 and no CPUtime.
C19_Witness ==
  /\ last.op = "eval" /\ last.pre.mem.called_once /\ last.calls # <<>>
  /\ iface.n_ = 2 /\ iface.nc_ = 2
  /\ iface.opts.nWSR = <<0>> /\ iface.opts.CPUtime = Unset
  /\ last.nWSR = 0 /\ last.cputime_ptr = <<>>

(***************************************************************************)
(* C20.  A call on one memory leaves the tag and the backend object of     *)
(* every other memory as they are, in whatever order the calls on the      *)
(* memories follow one another.                                            *)
(***************************************************************************)
C20_InstancesIndependent ==
  [][\A o \in Mems : last'.m # o => (mem'[o] = mem[o] /\ obj'[o] = obj[o])]_vars

\* A solve on the first memory while the second, initialised, has not
\* solved.
C20_Witness ==
  /\ last.op = "eval" /\ last.m = 1 /\ last.error = "none"
  /\ mem[1].called_once
  /\ hist[2].initOk /\ ~mem[2].called_once /\ mem[2].qp = "object"
  /\ obj[2].status = "QPS_NOTINITIALISED" /\ obj[1].status = "QPS_SOLVED"

(***************************************************************************)
(* C21.  As claimed: the backend object is created lazily: there is none   *)
(* after the construction of the memory and none after init_memory, and    *)
(* the first solve creates it.                                             *)
(***************************************************************************)
C21_AsClaimed ==
  /\ last.op \in {"QpoasesMemory", "init_memory"} => mem[last.m].qp = "null"
  /\ (Solved_ /\ FirstSolve) => last.pre.mem.qp = "null" /\ mem[last.m].qp = "object"

(***************************************************************************)
(* C21, amended.  The memory holds no backend object after its             *)
(* construction; an init_memory that returns has created one, not yet      *)
(* initialised, and no solve creates or replaces the object: a solve works *)
(* on the object init_memory has left.                                     *)
(***************************************************************************)
C21_CreatedByInitMemory ==
  /\ last.op = "QpoasesMemory" => mem[last.m].qp = "null" /\ obj[last.m] = NoObject
  /\ (last.op = "init_memory" /\ last.error = "none") =>
       /\ mem[last.m].qp = "object"
       /\ obj[last.m].kind # "none" /\ obj[last.m].deletes = 0
       /\ obj[last.m].status = "QPS_NOTINITIALISED"
  /\ last.op = "eval" =>
       /\ last.pre.mem.qp = "object" /\ mem[last.m].qp = "object"
       /\ obj[last.m].kind = last.pre.obj.kind
       /\ obj[last.m].deletes = last.pre.obj.deletes

\* The first solve on a memory finds the object of init_memory.
C21_Witness ==
  /\ Solved_ /\ FirstSolve
  /\ last.pre.mem.qp = "object" /\ last.pre.obj.status = "QPS_NOTINITIALISED"
  /\ last.pre.obj.kind = "SQProblem"
  /\ last.error = "none"

(***************************************************************************)
(* C22.  A solve on a memory that has got to the backend before, with no   *)
(* init_memory since, calls reset and then init and no hotstart when       *)
(* nc = 0, and calls hotstart once and neither init nor reset when         *)
(* nc > 0.                                                                 *)
(***************************************************************************)
C22_WarmPathByVariant ==
  (Solved_ /\ last.pre.mem.called_once) =>
    LET count(fn) == Cardinality({i \in DOMAIN last.calls : last.calls[i].fn = fn})
    IN IF iface.nc_ = 0
         THEN /\ Len(last.calls) = 2
              /\ last.calls[1].fn = "reset" /\ last.calls[2].fn = "init"
              /\ count("hotstart") = 0
         ELSE /\ count("hotstart") = 1
              /\ count("init") = 0 /\ count("reset") = 0

\* A solve of a bound-only problem on a memory that has solved one.
C22_Witness ==
  /\ Solved_ /\ last.pre.mem.called_once /\ last.pre.hist.succeeded
  /\ iface.nc_ = 0
  /\ LastFns = <<"reset", "init">>
  /\ last.pre.obj.status = "QPS_SOLVED" /\ last.error = "none"

(***************************************************************************)
(* C23.  A solve that gets to the backend cuts h (n*n), a (n*nc), g, lb,   *)
(* ub (n each), lbA, ubA (nc each) and, when multipliers are asked for and *)
(* it returns normally, dual (n+nc) from the workspace, each where the one *)
(* before ends, the first at 0; no two overlap; the last ends within the   *)
(* size asked for in init, which the solve leaves as it is.                *)
(***************************************************************************)
C23_SlicesWithinWorkspace ==
  Solved_ =>
    LET w == last.w
        n == iface.n_
        nc == iface.nc_
        dual == last.error = "none" /\ WantsDual(last.want)
    IN /\ [k \in DOMAIN w |-> w[k].len]
            = <<n * n, n * nc, n, n, n, nc, nc>> \o (IF dual THEN <<n + nc>> ELSE <<>>)
       /\ w[1].off = 0
       /\ \A k \in 2..Len(w) : w[k].off = w[k - 1].off + w[k - 1].len
       /\ \A j, k \in DOMAIN w :
            j # k => \A x \in w[j].off..(w[j].off + w[j].len - 1) :
                       x \notin w[k].off..(w[k].off + w[k].len - 1)
       /\ w[Len(w)].off + w[Len(w)].len <= iface.sz_w
       /\ iface.sz_w = AllocAll(0, WorkVectors(iface))

\* A solve for lam_a alone on 2 variables and 2 constraints uses the whole
\* workspace.
C23_Witness ==
  /\ Solved_ /\ last.error = "none"
  /\ iface.n_ = 2 /\ iface.nc_ = 2
  /\ last.want = [NoRes EXCEPT !["lam_a"] = "unset"]
  /\ Len(last.w) = 8 /\ last.w[8].off = 18 /\ last.w[8].off + last.w[8].len = iface.sz_w

C25_AllowedValuesAccepted ==
  (/\ last.op = "init_memory" /\ last.error # "bad_alloc"
   /\ option(iface, "printLevel") \in Allowed.printLevel
   /\ option(iface, "initialStatusBounds") \in Allowed.initialStatusBounds) =>
    /\ last.error = "none"
    /\ mem[last.m].qp = "object" /\ obj[last.m].options

(***************************************************************************)
(* C26.  After a solve that returns normally, the multipliers written are  *)
(* the backend's dual vector of length n + nc, negated and split by        *)
(* position: lam_x[i] = -dual[i] for the n bounds and lam_a[j] =           *)
(* -dual[n + j] for the nc constraints, each when its slot is not null.    *)
(***************************************************************************)
C26_MultipliersNegatedSplit ==
  (Solved_ /\ last.error = "none" /\ WantsDual(last.want)) =>
    LET dual == getDualSolution(obj[last.m], iface.n_ + iface.nc_)
    IN /\ Len(dual) = iface.n_ + iface.nc_
       /\ last.want["lam_x"] # "null" =>
            /\ Len(last.lam.lam_x) = iface.n_
            /\ \A i \in 1..iface.n_ : last.lam.lam_x[i] = 0 - dual[i]
       /\ last.want["lam_a"] # "null" =>
            /\ Len(last.lam.lam_a) = iface.nc_
            /\ \A j \in 1..iface.nc_ : last.lam.lam_a[j] = 0 - dual[iface.n_ + j]

\* Both multipliers of a solved QP of 1 variable and 2 constraints.
C26_Witness ==
  /\ Solved_ /\ last.error = "none"
  /\ iface.n_ = 1 /\ iface.nc_ = 2
  /\ last.want = AllRes
  /\ obj[last.m].sol = "optimum"
  /\ last.lam = [lam_x |-> <<-1>>, lam_a |-> <<-2, -3>>]

C28_ConversionsInverse ==
  mapped # <<>> =>
    LET c == mapped[1]
        Fields == {"printLevel", "initialStatusBounds"}
    IN /\ c.fn = "to_option" =>
            /\ \A f \in Fields : c.value[f] # "not_implemented"
            /\ c.back = c.arg
       /\ c.fn = "from_option" =>
            /\ \A f \in Fields :
                 c.value[f] # "not_implemented" => c.back[f] = c.arg[f]
            /\ c.back.enableRamping = c.arg.enableRamping

====
